---- MODULE Spec2Model ----
(***************************************************************************)
(* ValidDog: OpenAPI conformance checking of captured HTTP traffic.        *)
(*                                                                         *)
(* Strings are sequences of one-character strings, so that the regular     *)
(* expressions, the split() calls and the URL handling of the source are   *)
(* computed character by character.  The alphabet of the model has no      *)
(* regular-expression metacharacter, no '.' segment and no character that  *)
(* the URL parser percent-encodes.                                         *)
(***************************************************************************)
EXTENDS Integers, Sequences, FiniteSets, TLC

VARIABLES
  spec,          \* the loaded OpenAPI document
  pc,            \* "idle", or the entry point that has just returned
  request,       \* RequestInfo given to validateRequest / validateResponse
  response,      \* ResponseInfo given to validateResponse
  result,        \* the ValidationResult returned (or the exception raised)
  responseSpec,  \* the response definition validateResponse resolved
  url,           \* requestUrl given to pathMatcher.matchPath
  method,        \* method given to pathMatcher.matchPath
  matched,       \* the MatchedPath returned (or null)
  tried,         \* per template: the outcome of its regular expression
  built,         \* the template and values the request URL was built from
  document,      \* the parsed document given to the OpenAPIValidator constructor
  resolved,      \* what resolveRefs returned for it
  resolvedSpec,  \* this.resolvedSpec: what convertSchemaForJsonSchema returned
  page,          \* the script that runs: "panel" (panel.ts) or "main" (main.ts)
  validator,     \* panel.ts: the active validator, by the text it was made from
  currentSpec,   \* main.ts: the active specification, by its text
  message,       \* the outcome last shown to the user (alert, spec-status)
  callbacks,     \* panel.ts: per network request, where its callback is
  trafficList,   \* panel.ts: the traffic entries, in order
  awaiting,      \* panel.ts: loadSpec / clearSpec calls waiting for the storage
  tabRequests,   \* background.ts: the keys of the request table
  handlers,      \* background.ts: per request, where its handlers are
  stored,        \* chrome.storage: the traffic history, newest first
  settings,      \* chrome.storage: openApiSpec and the two filter settings
  filterMatchSpec, \* panel.ts: the 'spec matches only' filter
  filterErrorOnly, \* panel.ts: the 'errors only' filter
  disabled       \* panel.ts: elements.filterErrorOnly.disabled

validatorVars ==
  <<spec, pc, request, response, result, responseSpec, url, method, matched,
    tried, built>>

resolverVars == <<document, resolved, resolvedSpec>>

panelVars ==
  <<page, validator, currentSpec, message, callbacks, trafficList, awaiting>>

backgroundVars == <<tabRequests, handlers, stored>>

settingsVars == <<settings, filterMatchSpec, filterErrorOnly, disabled>>

vars ==
  <<validatorVars, resolverVars, panelVars, backgroundVars, settingsVars>>

-----------------------------------------------------------------------------
(* Bounds of the model                                                     *)

MaxSegs == 2        \* segments of a generated request path
MaxBase == 1        \* segments of a base path put before a request path
MaxTemplates == 2   \* path templates of a generated specification
MaxChain == 6       \* component schemas that refer to one another in a chain
MaxEntries == 1     \* network requests observed by the panel
MaxAwaiting == 1    \* loadSpec / clearSpec calls waiting at the same time
MaxNest == 1        \* schemas nested in a schema, through properties or items
MaxRequests == 3    \* requests the background script handles at the same time
MaxOverlap == 2     \* panel handlers suspended at a storage call at a time
MaxHistory == 1002  \* requests handled one after the other

-----------------------------------------------------------------------------
(* String helpers (JavaScript String semantics)                            *)

Range(s) == {s[i] : i \in DOMAIN s}

Max(S) == CHOOSE n \in S : \A k \in S : k <= n

Min(S) == CHOOSE n \in S : \A k \in S : n <= k

\* String.prototype.split(c)[0]: the text before the first occurrence of c
SplitFirst(s, c) ==
  LET hits == {i \in 1..Len(s) : s[i] = c}
  IN  IF hits = {} THEN s ELSE SubSeq(s, 1, Min(hits) - 1)

\* String.prototype.split(c)[1] || '': the text between the first and the
\* second occurrence of c, the empty string when c does not occur
SplitSecond(s, c) ==
  LET hits == {i \in 1..Len(s) : s[i] = c}
  IN  IF hits = {} THEN <<>>
      ELSE LET rest == SubSeq(s, Min(hits) + 1, Len(s))
           IN  SplitFirst(rest, c)

\* String.prototype.startsWith / RegExp ^prefix
StartsWith(s, p) == Len(s) >= Len(p) /\ SubSeq(s, 1, Len(p)) = p

\* String.prototype.toLowerCase on the method names of the model
toLowerCase(m) ==
  CASE m = "GET" -> "get"
    [] m = "POST" -> "post"
    [] m = "PUT" -> "put"
    [] OTHER -> m

-----------------------------------------------------------------------------
(* Path templates as regular expressions                                   *)

LitTok(c) == [lit |-> TRUE, c |-> c, name |-> <<>>]

GroupTok(n) == [lit |-> FALSE, c |-> "", name |-> n]

\* pattern.replace(/\{([^}]+)\}/g, '([^/]+)'): every {name} becomes a
\* capturing group over one or more non-'/' characters; a '{' that is not
\* followed by a non-empty name and a '}' stays a literal character.
RECURSIVE ReplacePlaceholders(_, _)
ReplacePlaceholders(p, i) ==
  IF i > Len(p) THEN <<>>
  ELSE LET closes == {j \in (i + 1)..Len(p) : p[j] = "}"}
       IN  IF p[i] = "{" /\ closes # {} /\ Min(closes) >= i + 2
           THEN <<GroupTok(SubSeq(p, i + 1, Min(closes) - 1))>>
                  \o ReplacePlaceholders(p, Min(closes) + 1)
           ELSE <<LitTok(p[i])>> \o ReplacePlaceholders(p, i + 1)

\* the names pushed to paramNames, in template order
RECURSIVE ParamNames(_)
ParamNames(toks) ==
  IF toks = <<>> THEN <<>>
  ELSE IF Head(toks).lit THEN ParamNames(Tail(toks))
       ELSE <<Head(toks).name>> \o ParamNames(Tail(toks))

\* length of the run of non-'/' characters of s that starts at i
RECURSIVE SegRun(_, _)
SegRun(s, i) ==
  IF i > Len(s) \/ s[i] = "/" THEN 0 ELSE 1 + SegRun(s, i + 1)

NoMatch == [ok |-> FALSE, caps |-> <<>>]

\* Backtracking match of the tokens k.. of a regular expression that ends
\* in '$' against s from position i; a group is greedy.  The result carries
\* the captured texts in group order.
RECURSIVE MatchAt(_, _, _, _)
MatchAt(toks, k, s, i) ==
  IF k > Len(toks)
  THEN IF i = Len(s) + 1 THEN [ok |-> TRUE, caps |-> <<>>] ELSE NoMatch
  ELSE IF toks[k].lit
       THEN IF i <= Len(s) /\ s[i] = toks[k].c
            THEN MatchAt(toks, k + 1, s, i + 1)
            ELSE NoMatch
       ELSE LET good == {n \in 1..SegRun(s, i) :
                           MatchAt(toks, k + 1, s, i + n).ok}
            IN  IF good = {} THEN NoMatch
                ELSE LET n == Max(good)
                         rest == MatchAt(toks, k + 1, s, i + n)
                     IN  [ok |-> TRUE,
                          caps |-> <<SubSeq(s, i, i + n - 1)>> \o rest.caps]

\* mutant: the expression keeps its leading '^'
SearchSuffix_anchored(toks, s) == MatchAt(toks, 1, s, 1)

\* String.prototype.match with new RegExp(`${regexPattern}$`): the leftmost
\* position from which the expression matches up to the end of s
SearchSuffix(toks, s) ==
  LET starts == {i \in 1..(Len(s) + 1) : MatchAt(toks, 1, s, i).ok}
  IN  IF starts = {} THEN NoMatch ELSE MatchAt(toks, 1, s, Min(starts))

\* String.prototype.match with new RegExp(`^${regexPattern}$`)
SearchAnchored(toks, s) == MatchAt(toks, 1, s, 1)

\* mutant: every name gets the first capture group
AssignParams_firstGroup(names, caps) == [n \in Range(names) |-> caps[1]]

\* params[paramNames[i]] = match[i + 1], later names overwriting earlier
AssignParams(names, caps) ==
  [n \in Range(names) |->
     caps[Max({i \in DOMAIN names : names[i] = n})]]

NoParams == [n \in {} |-> <<>>]

-----------------------------------------------------------------------------
(* pathMatcher.ts                                                          *)

HTTP == <<"h", "t", "t", "p", ":", "/", "/">>

HTTPS == <<"h", "t", "t", "p", "s", ":", "/", "/">>

\* characters a host may not contain: the URL constructor throws on them
ForbiddenHostChars == {" "}

\* number of '/' characters of s from position i on, up to the first other
RECURSIVE SlashRun(_, _)
SlashRun(s, i) ==
  IF i <= Len(s) /\ s[i] = "/" THEN 1 + SlashRun(s, i + 1) ELSE 0

\* new URL(s) for an input that starts with http:// or https:// and has
\* neither query nor fragment: the slashes after the scheme are skipped, the
\* host runs to the next '/', a missing or malformed host throws, and the
\* pathname is the rest ('/' when there is none).
ParseURL(s) ==
  LET colon == Min({i \in 1..Len(s) : s[i] = ":"})
      hostAt == colon + 1 + SlashRun(s, colon + 1)
      hostLen == SegRun(s, hostAt)
      host == SubSeq(s, hostAt, hostAt + hostLen - 1)
      rest == SubSeq(s, hostAt + hostLen, Len(s))
  IN  IF hostLen = 0 \/ Range(host) \cap ForbiddenHostChars # {}
      THEN [threw |-> TRUE, pathname |-> <<>>]
      ELSE [threw |-> FALSE,
            pathname |-> IF rest = <<>> THEN <<"/">> ELSE rest]

\* mutant: the fragment is not removed
extractPathFromUrl_keepFragment(input) ==
  LET withoutQuery == SplitFirst(input, "?")
  IN  IF StartsWith(withoutQuery, HTTP) \/ StartsWith(withoutQuery, HTTPS)
      THEN LET u == ParseURL(withoutQuery)
           IN  IF u.threw THEN withoutQuery ELSE u.pathname
      ELSE withoutQuery

extractPathFromUrl(input) ==
  LET withoutQuery == SplitFirst(input, "?")
      withoutFragment == SplitFirst(withoutQuery, "#")
  IN  IF StartsWith(withoutFragment, HTTP) \/ StartsWith(withoutFragment, HTTPS)
      THEN LET u == ParseURL(withoutFragment)
           IN  IF u.threw THEN withoutFragment ELSE u.pathname
      ELSE withoutFragment

\* the tokens of new RegExp(`${regexPattern}$`); escaping '/' does not
\* change what the expression matches
pathPatternToRegex(pathPattern) == ReplacePlaceholders(pathPattern, 1)

extractPathParams(pathPattern, requestUrl) ==
  LET paramNames == ParamNames(ReplacePlaceholders(pathPattern, 1))
      urlMatch == SearchSuffix(pathPatternToRegex(pathPattern), requestUrl)
  IN  IF urlMatch.ok /\ Len(paramNames) > 0
      THEN AssignParams(paramNames, urlMatch.caps)
      ELSE NoParams

\* JavaScript values: undefined, null, strings, numbers, booleans, objects
\* a JSON value: its type, and its string, number, boolean, or members
Value(t, s, n, b, props) == [t |-> t, s |-> s, n |-> n, b |-> b, props |-> props]

Undefined == Value("undefined", <<>>, 0, FALSE, NoParams)

Null == Value("null", <<>>, 0, FALSE, NoParams)

StrVal(x) == Value("string", x, 0, FALSE, NoParams)

NumVal(x) == Value("number", <<>>, x, FALSE, NoParams)

BoolVal(x) == Value("boolean", <<>>, 0, x, NoParams)

\* the object with the given members, the empty object, and the array with
\* the given elements
ObjOf(props) == Value("object", <<>>, 0, FALSE, props)

ObjVal == ObjOf(NoParams)

ArrVal(items) == Value("array", <<>>, 0, FALSE, items)

\* a schema node: its type, its optional minimum, the members it requires
\* and the schemas of its properties
SchemaNode(type, hasMinimum, minimum, required, properties) ==
  [type |-> type, hasMinimum |-> hasMinimum, minimum |-> minimum,
   required |-> required, properties |-> properties]

Schema(type, hasMinimum, minimum) ==
  SchemaNode(type, hasMinimum, minimum, <<>>, NoParams)

\* { type: 'object', required: [...], properties: {...} }
ObjectSchema(required, properties) ==
  SchemaNode("object", FALSE, 0, required, properties)

NoSchema == Schema("none", FALSE, 0)

NoOperation ==
  [id |-> "none", parameters |-> <<>>,
   requestBody |-> [declared |-> FALSE, required |-> FALSE,
                    hasSchema |-> FALSE, schema |-> NoSchema],
   responses |-> <<>>]

NotMatched ==
  [found |-> FALSE, path |-> <<>>, method |-> "", operation |-> NoOperation,
   pathParams |-> NoParams]

\* the for loop of matchPath over Object.entries(spec.paths), from entry i
RECURSIVE matchPathFrom(_, _, _, _)
matchPathFrom(paths, i, path, normalizedMethod) ==
  IF i > Len(paths) THEN NotMatched
  ELSE LET pathPattern == paths[i].pattern
           pathItem == paths[i].ops
       IN  IF normalizedMethod \notin DOMAIN pathItem
           THEN matchPathFrom(paths, i + 1, path, normalizedMethod)
           ELSE IF SearchSuffix(pathPatternToRegex(pathPattern), path).ok
                THEN [found |-> TRUE, path |-> pathPattern,
                      method |-> normalizedMethod,
                      operation |-> pathItem[normalizedMethod],
                      pathParams |-> extractPathParams(pathPattern, path)]
                ELSE matchPathFrom(paths, i + 1, path, normalizedMethod)

\* mutant: the method is looked up as given, without toLowerCase
matchPath_caseSensitive(s, requestUrl, m) ==
  matchPathFrom(s.paths, 1, extractPathFromUrl(requestUrl), m)

matchPath(s, requestUrl, m) ==
  matchPathFrom(s.paths, 1, extractPathFromUrl(requestUrl), toLowerCase(m))

-----------------------------------------------------------------------------
(* validator.ts: utilities                                                 *)

\* String.prototype.split(c): the parts of s between the occurrences of c
RECURSIVE Split(_, _)
Split(s, c) ==
  LET hits == {i \in 1..Len(s) : s[i] = c}
  IN  IF hits = {} THEN <<s>>
      ELSE <<SubSeq(s, 1, Min(hits) - 1)>>
             \o Split(SubSeq(s, Min(hits) + 1, Len(s)), c)

HexDigits == {"0", "1", "2", "3", "4", "5", "6", "7", "8", "9", "a", "b"}

\* the character an escape %h1h2 decodes to, for the escapes the inputs of
\* the model use
HexChar(h1, h2) ==
  CASE h1 = "6" /\ h2 = "1" -> "a"
    [] h1 = "6" /\ h2 = "2" -> "b"
    [] h1 = "3" /\ h2 = "1" -> "1"
    [] OTHER -> "?"

\* a '%' must be followed by two hexadecimal digits, and a byte above 0x7f
\* that starts no UTF-8 sequence is malformed: URIError otherwise
HexValid(h1, h2) ==
  /\ h1 \in {"0", "1", "2", "3", "4", "5", "6", "7"}
  /\ h2 \in HexDigits

RECURSIVE decodeURIComponent(_)
decodeURIComponent(s) ==
  IF s = <<>> THEN [threw |-> FALSE, s |-> <<>>]
  ELSE IF Head(s) # "%"
       THEN LET r == decodeURIComponent(Tail(s))
            IN  [threw |-> r.threw, s |-> <<Head(s)>> \o r.s]
       ELSE IF Len(s) < 3 \/ ~HexValid(s[2], s[3])
            THEN [threw |-> TRUE, s |-> <<>>]
            ELSE LET r == decodeURIComponent(SubSeq(s, 4, Len(s)))
                 IN  [threw |-> r.threw, s |-> <<HexChar(s[2], s[3])>> \o r.s]

\* the for loop of parseQueryString over the pairs, from pair i
RECURSIVE parsePairs(_, _, _)
parsePairs(pairs, i, params) ==
  IF i > Len(pairs) THEN [threw |-> FALSE, params |-> params]
  ELSE LET kv == Split(pairs[i], "=")
           key == kv[1]
           k == decodeURIComponent(key)
           v == IF Len(kv) >= 2 /\ kv[2] # <<>>
                THEN decodeURIComponent(kv[2])
                ELSE [threw |-> FALSE, s |-> <<>>]
       IN  IF key = <<>> THEN parsePairs(pairs, i + 1, params)
           ELSE IF k.threw \/ v.threw
                THEN [threw |-> TRUE, params |-> params]
                ELSE parsePairs(pairs, i + 1,
                       [n \in DOMAIN params \cup {k.s} |->
                          IF n = k.s THEN v.s ELSE params[n]])

parseQueryString(queryString) ==
  IF queryString = <<>> THEN [threw |-> FALSE, params |-> NoParams]
  ELSE parsePairs(Split(queryString, "&"), 1, NoParams)

\* mutant: the template is not anchored at the start of the path
validator_matchPath_unanchored(pattern, actualPath) ==
  LET toks == ReplacePlaceholders(pattern, 1)
      match == SearchSuffix(toks, actualPath)
  IN  IF ~match.ok THEN [found |-> FALSE, params |-> NoParams]
      ELSE [found |-> TRUE, params |-> AssignParams(ParamNames(toks), match.caps)]

\* matchPath of validator.ts: the template anchored at both ends
validator_matchPath(pattern, actualPath) ==
  LET toks == ReplacePlaceholders(pattern, 1)
      paramNames == ParamNames(toks)
      match == SearchAnchored(toks, actualPath)
  IN  IF ~match.ok THEN [found |-> FALSE, params |-> NoParams]
      ELSE [found |-> TRUE, params |-> AssignParams(paramNames, match.caps)]

-----------------------------------------------------------------------------
(* validator.ts: OpenAPIValidator                                          *)

BODY == <<"b", "o", "d", "y">>

RESPONSE == <<"r", "e", "s", "p", "o", "n", "s", "e">>

PATH == <<"p", "a", "t", "h">>

QUERY == <<"q", "u", "e", "r", "y">>

HEADER == <<"h", "e", "a", "d", "e", "r">>

DEFAULT == <<"d", "e", "f", "a", "u", "l", "t">>

\* the location of an error that sets none
NoLocation == <<"undefined">>

Error(path, errorCode, location) ==
  [path |-> path, errorCode |-> errorCode, location |-> location]

Returned(valid, errors) == [threw |-> FALSE, valid |-> valid, errors |-> errors]

Threw == [threw |-> TRUE, valid |-> FALSE, errors |-> <<>>]

DigitVal(c) ==
  CASE c = "0" -> 0 [] c = "1" -> 1 [] c = "2" -> 2 [] c = "3" -> 3
    [] c = "4" -> 4 [] c = "5" -> 5 [] c = "6" -> 6 [] c = "7" -> 7
    [] c = "8" -> 8 [] c = "9" -> 9 [] OTHER -> -1

DigitChar(d) ==
  CASE d = 0 -> "0" [] d = 1 -> "1" [] d = 2 -> "2" [] d = 3 -> "3"
    [] d = 4 -> "4" [] d = 5 -> "5" [] d = 6 -> "6" [] d = 7 -> "7"
    [] d = 8 -> "8" [] OTHER -> "9"

\* String(n) for a non-negative integer
RECURSIVE String(_)
String(n) ==
  IF n < 10 THEN <<DigitChar(n)>>
  ELSE String(n \div 10) \o <<DigitChar(n % 10)>>

\* Number(s) for a non-empty string of the model's alphabet: the value of a
\* string of decimal digits, NaN for any other
RECURSIVE DigitsValue(_, _)
DigitsValue(s, acc) ==
  IF s = <<>> THEN acc
  ELSE DigitsValue(Tail(s), 10 * acc + DigitVal(Head(s)))

Number(s) ==
  IF \A i \in DOMAIN s : DigitVal(s[i]) >= 0
  THEN [isNaN |-> FALSE, num |-> DigitsValue(s, 0)]
  ELSE [isNaN |-> TRUE, num |-> 0]

\* jsonschema's type test of an instance
TypeMatches(value, type) ==
  CASE type = "string" -> value.t = "string"
    [] type = "integer" -> value.t = "number"
    [] type = "number" -> value.t = "number"
    [] type = "boolean" -> value.t = "boolean"
    [] type = "object" -> value.t = "object"
    [] type = "array" -> value.t = "array"
    [] type = "null" -> value.t = "null"
    [] OTHER -> TRUE

\* an error of the library: the name of the keyword violated and the
\* property path of the instance
LibError(name, property) == [name |-> name, property |-> property]

INSTANCE_NAME == <<"i", "n", "s", "t", "a", "n", "c", "e">>

\* the library's type keyword: an undefined instance passes
typeErrors(value, schema, property) ==
  IF value.t = "undefined" \/ TypeMatches(value, schema.type) THEN <<>>
  ELSE <<LibError("type", property)>>

\* mutant: the required members are looked for in an instance of any type
requiredErrors_unguarded(value, schema, property) ==
  LET missing == SelectSeq(schema.required,
                           LAMBDA name : \/ value.t # "object"
                                         \/ name \notin DOMAIN value.props)
  IN  [k \in DOMAIN missing |-> LibError("required", property)]

\* the library's required keyword: one error per missing member of an
\* object instance, at the property path of the object
requiredErrors(value, schema, property) ==
  IF value.t # "object" THEN <<>>
  ELSE LET missing == SelectSeq(schema.required,
                                LAMBDA name : name \notin DOMAIN value.props)
       IN  [k \in DOMAIN missing |-> LibError("required", property)]

\* the library's minimum keyword, of a number instance
minimumErrors(value, schema, property) ==
  IF schema.hasMinimum /\ value.t = "number" /\ value.n < schema.minimum
  THEN <<LibError("minimum", property)>> ELSE <<>>

\* jsonValidator.validate(value, schema).errors: the keywords the instance
\* violates, in the order of the schema's keywords (type, required,
\* properties, minimum); the properties keyword validates each declared
\* property of an object instance, a missing member as undefined
RECURSIVE jsonValidate(_, _, _)
RECURSIVE propertiesErrors(_, _, _, _)
propertiesErrors(value, schema, property, k) ==
  IF value.t # "object" \/ k > Len(schema.properties) THEN <<>>
  ELSE LET name == schema.properties[k].name
           member == IF name \in DOMAIN value.props THEN value.props[name]
                     ELSE Undefined
       IN  jsonValidate(member, schema.properties[k].schema,
                        property \o <<".">> \o name)
           \o propertiesErrors(value, schema, property, k + 1)

jsonValidate(value, schema, property) ==
  typeErrors(value, schema, property)
  \o requiredErrors(value, schema, property)
  \o propertiesErrors(value, schema, property, 1)
  \o minimumErrors(value, schema, property)

\* new RegExp(pattern) returns: of the patterns of the model, those whose
\* parentheses are closed
WellFormed(pattern) ==
  Cardinality({i \in DOMAIN pattern : pattern[i] = "("})
    = Cardinality({i \in DOMAIN pattern : pattern[i] = ")"})

\* { type: 'string', pattern: pattern }
PatternSchema(pattern) == Schema("string", FALSE, 0) @@ [pattern |-> pattern]

\* the library's pattern keyword throws the SyntaxError of the expression
\* it builds, for a string instance
patternThrows(value, schema) ==
  /\ "pattern" \in DOMAIN schema
  /\ value.t = "string"
  /\ ~WellFormed(schema.pattern)

\* jsonValidator.validate(value, schema) throws: at the instance, or at one
\* of the declared properties of an object instance
RECURSIVE jsonThrows(_, _)
jsonThrows(value, schema) ==
  \/ patternThrows(value, schema)
  \/ /\ value.t = "object"
     /\ \E k \in DOMAIN schema.properties :
          LET name == schema.properties[k].name
          IN  jsonThrows(IF name \in DOMAIN value.props THEN value.props[name]
                         ELSE Undefined,
                         schema.properties[k].schema)

INSTANCE_SUFFIX == <<".">> \o INSTANCE_NAME

\* error.property.replace('instance.', '')
StripInstance(property) ==
  IF StartsWith(property, INSTANCE_NAME \o <<".">>)
  THEN SubSeq(property, Len(INSTANCE_NAME) + 2, Len(property))
  ELSE property

\* mutant: the catch replaces the errors found so far by the one error
validateSchema_abandon(value, schema, path, errors) ==
  LET found == jsonValidate(value, schema, INSTANCE_NAME)
  IN  IF jsonThrows(value, schema)
      THEN <<Error(path, "VALIDATION_ERROR", NoLocation)>>
      ELSE errors \o [i \in DOMAIN found |->
                        Error(path \o <<".">> \o StripInstance(found[i].property),
                              found[i].name, path)]

\* validateSchema: one error per error of the library, at
\* `${path}.${property}` with the first 'instance.' of the property removed,
\* so that an error of the root instance is at `${path}.instance`; when the
\* library throws, the catch pushes one VALIDATION_ERROR at path
validateSchema(value, schema, path, errors) ==
  LET found == jsonValidate(value, schema, INSTANCE_NAME)
  IN  IF jsonThrows(value, schema)
      THEN Append(errors, Error(path, "VALIDATION_ERROR", NoLocation))
      ELSE errors \o [i \in DOMAIN found |->
                        Error(path \o <<".">> \o StripInstance(found[i].property),
                              found[i].name, path)]

\* a declared parameter
Parameter(name, in, required, hasSchema, schema) ==
  [name |-> name, in |-> in, required |-> required,
   hasSchema |-> hasSchema, schema |-> schema]

\* mutant: the result of Number is used without the isNaN test
convertValue_unchecked(value, schema) ==
  IF schema.type = "integer" \/ schema.type = "number"
  THEN NumVal(Number(value).num)
  ELSE IF schema.type = "boolean"
       THEN BoolVal(value = <<"t", "r", "u", "e">>)
       ELSE StrVal(value)

\* the coercion of a present parameter value by the declared type
convertValue(value, schema) ==
  IF schema.type = "integer" \/ schema.type = "number"
  THEN LET num == Number(value)
       IN  IF ~num.isNaN THEN NumVal(num.num) ELSE StrVal(value)
  ELSE IF schema.type = "boolean"
       THEN BoolVal(value = <<"t", "r", "u", "e">>)
       ELSE StrVal(value)

\* mutant: only an absent value counts as missing, the empty string does not
RECURSIVE validateParameters_emptyPresent(_, _, _, _, _)
validateParameters_emptyPresent(parameters, i, location, values, errors) ==
  IF i > Len(parameters) THEN errors
  ELSE LET param == parameters[i]
           present == param.name \in DOMAIN values
       IN  IF param.in # location
           THEN validateParameters_emptyPresent(parameters, i + 1, location,
                                                values, errors)
           ELSE IF param.required /\ ~present
                THEN validateParameters_emptyPresent(parameters, i + 1,
                       location, values,
                       Append(errors, Error(param.name, "REQUIRED", location)))
                ELSE IF present /\ param.hasSchema
                     THEN validateParameters_emptyPresent(parameters, i + 1,
                            location, values,
                            validateSchema(
                              convertValue(values[param.name], param.schema),
                              param.schema, param.name, errors))
                     ELSE validateParameters_emptyPresent(parameters, i + 1,
                            location, values, errors)

\* the for loop of validateParameters over the parameters, from parameter i;
\* values[param.name] is undefined when values has no such key
RECURSIVE validateParameters(_, _, _, _, _)
validateParameters(parameters, i, location, values, errors) ==
  IF i > Len(parameters) THEN errors
  ELSE LET param == parameters[i]
           present == param.name \in DOMAIN values
           empty == ~present \/ values[param.name] = <<>>
       IN  IF param.in # location
           THEN validateParameters(parameters, i + 1, location, values, errors)
           ELSE IF param.required /\ empty
                THEN validateParameters(parameters, i + 1, location, values,
                       Append(errors, Error(param.name, "REQUIRED", location)))
                ELSE IF ~empty /\ param.hasSchema
                     THEN validateParameters(parameters, i + 1, location, values,
                            validateSchema(
                              convertValue(values[param.name], param.schema),
                              param.schema, param.name, errors))
                     ELSE validateParameters(parameters, i + 1, location,
                                             values, errors)

\* the for loop of findMatchingPath over Object.keys(paths), from entry i
RECURSIVE findMatchingPathFrom(_, _, _)
findMatchingPathFrom(paths, i, pathWithoutQuery) ==
  IF i > Len(paths)
  THEN [found |-> FALSE, index |-> 0, pattern |-> <<>>, params |-> NoParams]
  ELSE LET m == validator_matchPath(paths[i].pattern, pathWithoutQuery)
       IN  IF m.found
           THEN [found |-> TRUE, index |-> i, pattern |-> paths[i].pattern,
                 params |-> m.params]
           ELSE findMatchingPathFrom(paths, i + 1, pathWithoutQuery)

\* mutant: the last declared template that matches wins
findMatchingPath_last(s, actualPath) ==
  LET ok == {i \in DOMAIN s.paths :
               validator_matchPath(s.paths[i].pattern,
                                   SplitFirst(actualPath, "?")).found}
  IN  IF ok = {}
      THEN [found |-> FALSE, index |-> 0, pattern |-> <<>>, params |-> NoParams]
      ELSE [found |-> TRUE, index |-> Max(ok),
            pattern |-> s.paths[Max(ok)].pattern,
            params |-> validator_matchPath(s.paths[Max(ok)].pattern,
                                           SplitFirst(actualPath, "?")).params]

findMatchingPath(s, actualPath) ==
  findMatchingPathFrom(s.paths, 1, SplitFirst(actualPath, "?"))

\* { ...queryParams, ...request.query }
Spread(a, b) ==
  [n \in DOMAIN a \cup DOMAIN b |-> IF n \in DOMAIN b THEN b[n] ELSE a[n]]

\* mutant: the body is validated only when the parameters gave no error
validateRequest_terminal(s, req) ==
  LET found == findMatchingPath(s, req.path)
      pathItem == s.paths[found.index]
      operation == pathItem.ops[req.method]
      allParameters == pathItem.parameters \o operation.parameters
      queryParams == parseQueryString(SplitSecond(req.path, "?"))
      e1 == validateParameters(allParameters, 1, PATH, found.params, <<>>)
      e2 == validateParameters(allParameters, 1, QUERY,
                               Spread(queryParams.params, req.query), e1)
      rb == operation.requestBody
      absent == req.body.t \in {"undefined", "null"}
      e3 == IF e2 = <<>> /\ rb.declared /\ rb.hasSchema
            THEN IF rb.required /\ absent
                 THEN Append(e2, Error(BODY, "REQUIRED", BODY))
                 ELSE IF ~absent
                      THEN validateSchema(req.body, rb.schema, BODY, e2)
                      ELSE e2
            ELSE e2
  IN  IF ~found.found
      THEN Returned(FALSE, <<Error(req.path, "PATH_NOT_FOUND", NoLocation)>>)
      ELSE IF req.method \notin DOMAIN pathItem.ops
           THEN Returned(FALSE,
                         <<Error(req.path, "METHOD_NOT_ALLOWED", NoLocation)>>)
           ELSE IF queryParams.threw THEN Threw
                ELSE Returned(e3 = <<>>, e3)

validateRequest(s, req) ==
  LET found == findMatchingPath(s, req.path)
      pathItem == s.paths[found.index]
      operation == pathItem.ops[req.method]
      allParameters == pathItem.parameters \o operation.parameters
      queryParams == parseQueryString(SplitSecond(req.path, "?"))
      e1 == validateParameters(allParameters, 1, PATH, found.params, <<>>)
      e2 == validateParameters(allParameters, 1, QUERY,
                               Spread(queryParams.params, req.query), e1)
      rb == operation.requestBody
      absent == req.body.t \in {"undefined", "null"}
      e3 == IF rb.declared /\ rb.hasSchema
            THEN IF rb.required /\ absent
                 THEN Append(e2, Error(BODY, "REQUIRED", BODY))
                 ELSE IF ~absent
                      THEN validateSchema(req.body, rb.schema, BODY, e2)
                      ELSE e2
            ELSE e2
  IN  IF ~found.found
      THEN Returned(FALSE, <<Error(req.path, "PATH_NOT_FOUND", NoLocation)>>)
      ELSE IF req.method \notin DOMAIN pathItem.ops
           THEN Returned(FALSE,
                         <<Error(req.path, "METHOD_NOT_ALLOWED", NoLocation)>>)
           ELSE IF queryParams.threw THEN Threw
                ELSE Returned(e3 = <<>>, e3)

\* mutant: an undeclared key yields an empty definition
ResponseAt_orEmpty(responses, k) ==
  IF k \in DOMAIN responses
  THEN [defined |-> TRUE, description |-> responses[k].description,
        hasSchema |-> responses[k].hasSchema, schema |-> responses[k].schema]
  ELSE [defined |-> TRUE, description |-> "", hasSchema |-> FALSE,
        schema |-> Schema("none", FALSE, 0)]

\* operation.responses[k], undefined when the operation declares no k
NoResponse ==
  [defined |-> FALSE, description |-> "", hasSchema |-> FALSE,
   schema |-> NoSchema]

ResponseAt(responses, k) ==
  IF k \in DOMAIN responses
  THEN [defined |-> TRUE, description |-> responses[k].description,
        hasSchema |-> responses[k].hasSchema, schema |-> responses[k].schema]
  ELSE NoResponse

\* a || b on response definitions, which are objects when declared
OrElse(a, b) == IF a.defined THEN a ELSE b

\* mutant: the class wildcard is tried before the exact status code
responseSpecOf_classFirst(operation, statusCode) ==
  OrElse(ResponseAt(operation.responses, <<statusCode[1], "X", "X">>),
         OrElse(ResponseAt(operation.responses, statusCode),
                ResponseAt(operation.responses, DEFAULT)))

\* the response definition the status code resolves to
responseSpecOf(operation, statusCode) ==
  OrElse(ResponseAt(operation.responses, statusCode),
         OrElse(ResponseAt(operation.responses, <<statusCode[1], "X", "X">>),
                ResponseAt(operation.responses, DEFAULT)))

\* mutant: only an undefined body counts as no body
noContentErrors_undefinedOnly(req, resp) ==
  IF resp.body.t # "undefined"
  THEN <<Error(req.path, "UNEXPECTED_BODY", NoLocation)>>
  ELSE <<>>

\* the errors of a 204 No Content response: a body that is neither
\* undefined, null nor the empty string
noContentErrors(req, resp) ==
  IF resp.body.t \notin {"undefined", "null"} /\ resp.body # StrVal(<<>>)
  THEN <<Error(req.path, "UNEXPECTED_BODY", NoLocation)>>
  ELSE <<>>

\* mutant: a 204 response is valid whatever its errors
validateResponse_validNoContent(s, req, resp) ==
  LET found == findMatchingPath(s, req.path)
      pathItem == s.paths[found.index]
      operation == pathItem.ops[req.method]
      statusCode == String(resp.statusCode)
      rs == responseSpecOf(operation, statusCode)
      e204 == noContentErrors(req, resp)
      e == IF rs.hasSchema /\ resp.body.t # "undefined"
           THEN validateSchema(resp.body, rs.schema, RESPONSE, <<>>)
           ELSE <<>>
  IN  IF ~found.found
      THEN Returned(FALSE, <<Error(req.path, "PATH_NOT_FOUND", NoLocation)>>)
      ELSE IF req.method \notin DOMAIN pathItem.ops
           THEN Returned(FALSE,
                         <<Error(req.path, "METHOD_NOT_ALLOWED", NoLocation)>>)
           ELSE IF ~rs.defined
                THEN Returned(FALSE,
                       <<Error(req.path, "UNEXPECTED_STATUS_CODE", NoLocation)>>)
                ELSE IF resp.statusCode = 204
                     THEN Returned(TRUE, e204)
                     ELSE Returned(e = <<>>, e)

validateResponse(s, req, resp) ==
  LET found == findMatchingPath(s, req.path)
      pathItem == s.paths[found.index]
      operation == pathItem.ops[req.method]
      statusCode == String(resp.statusCode)
      rs == responseSpecOf(operation, statusCode)
      e204 == noContentErrors(req, resp)
      e == IF rs.hasSchema /\ resp.body.t # "undefined"
           THEN validateSchema(resp.body, rs.schema, RESPONSE, <<>>)
           ELSE <<>>
  IN  IF ~found.found
      THEN Returned(FALSE, <<Error(req.path, "PATH_NOT_FOUND", NoLocation)>>)
      ELSE IF req.method \notin DOMAIN pathItem.ops
           THEN Returned(FALSE,
                         <<Error(req.path, "METHOD_NOT_ALLOWED", NoLocation)>>)
           ELSE IF ~rs.defined
                THEN Returned(FALSE,
                       <<Error(req.path, "UNEXPECTED_STATUS_CODE", NoLocation)>>)
                ELSE IF resp.statusCode = 204
                     THEN Returned(e204 = <<>>, e204)
                     ELSE Returned(e = <<>>, e)

-----------------------------------------------------------------------------
(* validator.ts: resolveRefs, on documents as JSON trees                   *)

\* a JSON node: a scalar, a { $ref } record, an object or an array
Node(kind, ref, kids) == [kind |-> kind, ref |-> ref, kids |-> kids]

Leaf == Node("leaf", "", <<>>)

\* { $ref: '#/components/schemas/<name>' }
Ref(name) == Node("ref", name, <<>>)

Obj(kids) == Node("object", "", kids)

Arr(items) == Node("array", "", items)

\* if (depth > 20) return obj
DepthLimit == 20

\* mutant: beyond the depth limit the node is dropped, not returned
RECURSIVE resolveRef_dropped(_, _, _)
resolveRef_dropped(schemas, obj, depth) ==
  IF depth > DepthLimit THEN Leaf
  ELSE CASE obj.kind = "leaf" -> obj
         [] obj.kind = "array" ->
              Arr([i \in DOMAIN obj.kids |->
                     resolveRef_dropped(schemas, obj.kids[i], depth + 1)])
         [] obj.kind = "ref" ->
              IF obj.ref \in DOMAIN schemas
              THEN resolveRef_dropped(schemas, schemas[obj.ref], depth + 1)
              ELSE obj
         [] OTHER ->
              Obj([k \in DOMAIN obj.kids |->
                     resolveRef_dropped(schemas, obj.kids[k], depth + 1)])

\* resolveRef of resolveRefs, schemas being resolved.components.schemas
RECURSIVE resolveRef(_, _, _)
resolveRef(schemas, obj, depth) ==
  IF depth > DepthLimit THEN obj
  ELSE CASE obj.kind = "leaf" -> obj
         [] obj.kind = "array" ->
              Arr([i \in DOMAIN obj.kids |->
                     resolveRef(schemas, obj.kids[i], depth + 1)])
         [] obj.kind = "ref" ->
              IF obj.ref \in DOMAIN schemas
              THEN resolveRef(schemas, schemas[obj.ref], depth + 1)
              ELSE obj
         [] OTHER ->
              Obj([k \in DOMAIN obj.kids |->
                     resolveRef(schemas, obj.kids[k], depth + 1)])

\* resolved.components?.schemas
SchemasOf(doc) ==
  IF "components" \in DOMAIN doc.kids
  THEN doc.kids["components"].kids["schemas"].kids
  ELSE <<>>

resolveRefs(doc) == resolveRef(SchemasOf(doc), doc, 0)

\* a string or boolean of a document, by its text
Scalar(value) == Node("leaf", value, <<>>)

NULL_TYPE == Scalar("null")

\* record.nullable === true && record.type
IsNullable(obj) ==
  /\ "nullable" \in DOMAIN obj.kids
  /\ obj.kids["nullable"] = Scalar("true")
  /\ "type" \in DOMAIN obj.kids
  /\ obj.kids["type"] # Scalar("")

\* result.type of a nullable schema: the list with 'null' added, or the
\* list as it is when it includes 'null'
NullableType(type) ==
  IF type.kind = "array"
  THEN IF \E i \in DOMAIN type.kids : type.kids[i] = NULL_TYPE
       THEN type
       ELSE Arr(Append(type.kids, NULL_TYPE))
  ELSE Arr(<<type, NULL_TYPE>>)

\* the keys deleted from every converted schema
OpenApiOnly ==
  {"example", "examples", "xml", "externalDocs", "deprecated", "discriminator"}

Without(kids, keys) == [k \in (DOMAIN kids) \ keys |-> kids[k]]

\* mutant: the type is rewritten and the nullable key is kept
RECURSIVE convertSchema_keepFlag(_)
convertSchema_keepFlag(obj) ==
  CASE obj.kind \in {"leaf", "ref"} -> obj
    [] obj.kind = "array" ->
         Arr([i \in DOMAIN obj.kids |-> convertSchema_keepFlag(obj.kids[i])])
    [] OTHER ->
         LET copied ==
               [key \in DOMAIN obj.kids |->
                  LET value == obj.kids[key]
                  IN  IF key = "properties" /\ value.kind = "object"
                      THEN Obj([name \in DOMAIN value.kids |->
                                  convertSchema_keepFlag(value.kids[name])])
                      ELSE IF key = "items"
                      THEN convertSchema_keepFlag(value)
                      ELSE IF key \in {"allOf", "oneOf", "anyOf"}
                              /\ value.kind = "array"
                      THEN Arr([i \in DOMAIN value.kids |->
                                  convertSchema_keepFlag(value.kids[i])])
                      ELSE value]
             typed ==
               IF IsNullable(obj)
               THEN [copied EXCEPT !["type"] = NullableType(obj.kids["type"])]
               ELSE copied
         IN  Obj(Without(typed, OpenApiOnly))

\* convertSchema of convertSchemaForJsonSchema
RECURSIVE convertSchema(_)
convertSchema(obj) ==
  CASE obj.kind \in {"leaf", "ref"} -> obj
    [] obj.kind = "array" ->
         Arr([i \in DOMAIN obj.kids |-> convertSchema(obj.kids[i])])
    [] OTHER ->
         LET copied ==
               [key \in DOMAIN obj.kids |->
                  LET value == obj.kids[key]
                  IN  IF key = "properties" /\ value.kind = "object"
                      THEN Obj([name \in DOMAIN value.kids |->
                                  convertSchema(value.kids[name])])
                      ELSE IF key = "items"
                      THEN convertSchema(value)
                      ELSE IF key \in {"allOf", "oneOf", "anyOf"}
                              /\ value.kind = "array"
                      THEN Arr([i \in DOMAIN value.kids |->
                                  convertSchema(value.kids[i])])
                      ELSE value]
             typed ==
               IF IsNullable(obj)
               THEN Without([copied EXCEPT
                               !["type"] = NullableType(obj.kids["type"])],
                            {"nullable"})
               ELSE copied
         IN  Obj(Without(typed, OpenApiOnly))

\* the methods whose operations are converted
ConvertedMethods ==
  {"get", "post", "put", "patch", "delete", "options", "head"}

\* content[contentType].schema = convertSchema(...) for every content type
\* that has a schema
convertContent(holder) ==
  IF holder.kind = "object" /\ "content" \in DOMAIN holder.kids
  THEN LET content == holder.kids["content"]
       IN  Obj([holder.kids EXCEPT
                  !["content"] =
                     Obj([type \in DOMAIN content.kids |->
                            LET media == content.kids[type]
                            IN  IF "schema" \in DOMAIN media.kids
                                THEN Obj([media.kids EXCEPT
                                            !["schema"] = convertSchema(@)])
                                ELSE media])])
  ELSE holder

convertOperation(operation) ==
  Obj([key \in DOMAIN operation.kids |->
         LET value == operation.kids[key]
         IN  CASE key = "parameters" ->
                    Arr([i \in DOMAIN value.kids |->
                           LET param == value.kids[i]
                           IN  IF "schema" \in DOMAIN param.kids
                               THEN Obj([param.kids EXCEPT
                                           !["schema"] = convertSchema(@)])
                               ELSE param])
               [] key = "requestBody" -> convertContent(value)
               [] key = "responses" ->
                    Obj([code \in DOMAIN value.kids |->
                           convertContent(value.kids[code])])
               [] OTHER -> value])

\* convertSchemaForJsonSchema: the schemas of the operations of every path
\* and the component schemas
convertSchemaForJsonSchema(doc) ==
  Obj([key \in DOMAIN doc.kids |->
         LET value == doc.kids[key]
         IN  CASE key = "paths" ->
                    Obj([path \in DOMAIN value.kids |->
                           LET pathItem == value.kids[path]
                           IN  Obj([m \in DOMAIN pathItem.kids |->
                                      IF m \in ConvertedMethods
                                      THEN convertOperation(pathItem.kids[m])
                                      ELSE pathItem.kids[m]])])
               [] key = "components" ->
                    IF "schemas" \in DOMAIN value.kids
                    THEN Obj([value.kids EXCEPT
                                !["schemas"] =
                                   Obj([name \in DOMAIN @.kids |->
                                          convertSchema(@.kids[name])])])
                    ELSE value
               [] OTHER -> value])

-----------------------------------------------------------------------------
(* fileLoader.ts, panel.ts, main.ts: loading a specification               *)

\* the texts a user can supply: two specifications, a text that is neither
\* JSON nor YAML, and documents without info, without paths, with paths: {}
Texts == {"v1", "v2", "unparsable", "noInfo", "noPaths", "emptyPaths"}

\* JSON.parse / yaml.load return
Parses(text) == text # "unparsable"

HasInfo(text) == text \notin {"unparsable", "noInfo"}

HasPaths(text) == text \notin {"unparsable", "noPaths"}

\* fileLoader.ts validateSpec returns without throwing
validateSpec(text) ==
  /\ Parses(text)
  /\ HasInfo(text)
  /\ HasPaths(text)
  /\ text # "emptyPaths"

\* OpenAPIValidator.fromFile returns a validator: the text parses (the
\* constructor reads paths and components only where present)
fromFile(text) == Parses(text)

\* validator.validateRequest throws: Object.keys(this.resolvedSpec.paths)
ValidationThrows(v) == v # "null" /\ ~HasPaths(v)

NoValidation == [requestBy |-> "none", responseBy |-> "none"]

\* mutant: the response is validated by the validator that was active when
\* the request finished
validateEntry_captured(entry) ==
  [requestBy |-> validator, responseBy |-> entry.seen]

\* validateEntry: validator.validateRequest and validator.validateResponse,
\* each by the validator the variable holds when it is called ("null": the
\* all-valid result returned without a validator)
validateEntry(entry) ==
  [requestBy |-> validator, responseBy |-> validator]

\* an entry: the request it is of, the validator that was active when the
\* request finished (not read by the code), and its validation
Entry(id, seen, validation) ==
  [id |-> id, seen |-> seen, validation |-> validation]

NoCallback == [state |-> "none", seen |-> "null"]

InitBackgroundIdle ==
  /\ tabRequests = {}
  /\ handlers = <<>>
  /\ stored = <<>>

\* chrome.storage.local: the value under a key, or nothing
UNDEFINED == <<>>

Stored(value) == <<value>>

\* stored.key ?? false
OrFalse(item) == IF item = UNDEFINED THEN FALSE ELSE item[1]

Settings(openApiSpec, matchSpec, errorOnly) ==
  [openApiSpec |-> openApiSpec, filterMatchSpec |-> matchSpec,
   filterErrorOnly |-> errorOnly]

NoSettings == Settings(UNDEFINED, UNDEFINED, UNDEFINED)

\* let filterMatchSpec = false; let filterErrorOnly = false
InitFilterIdle ==
  /\ settings = NoSettings
  /\ filterMatchSpec = FALSE
  /\ filterErrorOnly = FALSE
  /\ disabled = FALSE

InitPanelIdle ==
  /\ page = "none"
  /\ validator = "null"
  /\ currentSpec = "null"
  /\ message = "none"
  /\ callbacks = <<>>
  /\ trafficList = <<>>
  /\ awaiting = <<>>

-----------------------------------------------------------------------------
(* The specifications and the traffic of the model                         *)

Response(description, hasSchema, schema) ==
  [description |-> description, hasSchema |-> hasSchema, schema |-> schema]

RequestBody(required, hasSchema, schema) ==
  [declared |-> TRUE, required |-> required, hasSchema |-> hasSchema,
   schema |-> schema]

NoRequestBody == NoOperation.requestBody

Operation(id, parameters, requestBody, responses) ==
  [id |-> id, parameters |-> parameters, requestBody |-> requestBody,
   responses |-> responses]

PathItem(pattern, ops, parameters) ==
  [pattern |-> pattern, ops |-> ops, parameters |-> parameters]

K200 == <<"2", "0", "0">>

K204 == <<"2", "0", "4">>

K404 == <<"4", "0", "4">>

K2XX == <<"2", "X", "X">>

OpItem ==
  Operation("getItem",
    <<Parameter(<<"x">>, PATH, TRUE, TRUE, Schema("integer", TRUE, 1)),
      Parameter(<<"q">>, QUERY, TRUE, TRUE, Schema("string", FALSE, 0)),
      Parameter(<<"h">>, HEADER, TRUE, TRUE, Schema("string", FALSE, 0))>>,
    NoRequestBody,
    (K200 :> Response("exact", TRUE, Schema("object", FALSE, 0))
     @@ K2XX :> Response("class", TRUE, Schema("string", FALSE, 0))
     @@ DEFAULT :> Response("default", FALSE, NoSchema)))

\* an expression that does not compile
BadPattern == <<"(">>

OpAny ==
  Operation("getAny",
    <<Parameter(<<"q">>, QUERY, FALSE, TRUE, Schema("integer", TRUE, 20)),
      Parameter(<<"y">>, PATH, TRUE, TRUE, Schema("string", FALSE, 0))>>,
    NoRequestBody,
    (K2XX :> Response("class", TRUE, Schema("object", FALSE, 0))
     @@ DEFAULT :> Response("default", TRUE, PatternSchema(BadPattern))))

OpDel ==
  Operation("postAny",
    <<Parameter(<<"q">>, QUERY, FALSE, TRUE, Schema("boolean", FALSE, 0)),
      Parameter(<<"y">>, PATH, TRUE, TRUE, PatternSchema(BadPattern))>>,
    RequestBody(FALSE, TRUE, Schema("object", FALSE, 0)),
    (DEFAULT :> Response("default", TRUE, Schema("object", FALSE, 0))))

OpDeep ==
  Operation("getDeep", <<>>, NoRequestBody,
    (K404 :> Response("exact", TRUE, Schema("object", FALSE, 0))))

\* { type: 'object', required: ['a'], properties: { a: { type: 'object',
\*   required: ['b'], properties: { b: { type: 'string' } } } } }
BodySchema ==
  ObjectSchema(<<<<"a">>>>,
    <<[name |-> <<"a">>,
       schema |-> ObjectSchema(<<<<"b">>>>,
                    <<[name |-> <<"b">>,
                       schema |-> Schema("string", FALSE, 0)]>>)]>>)

OpCreate ==
  Operation("postDeep",
    <<Parameter(<<"x">>, PATH, TRUE, TRUE, Schema("integer", TRUE, 1)),
      Parameter(<<"q">>, QUERY, TRUE, TRUE, Schema("integer", TRUE, 20))>>,
    RequestBody(TRUE, TRUE, BodySchema),
    (K204 :> Response("exact", TRUE, Schema("integer", FALSE, 0))
     @@ K404 :> Response("notfound", FALSE, NoSchema)))

OpList ==
  Operation("postList", <<>>, RequestBody(TRUE, FALSE, NoSchema),
    (K200 :> Response("exact", FALSE, NoSchema)))

T_a == <<"/", "a">>

T_ax == <<"/", "a", "/", "{", "x", "}">>

T_xy == <<"/", "{", "x", "}", "/", "{", "y", "}">>

T_xa == <<"/", "{", "x", "}", "/", "a">>

Entries ==
  { PathItem(T_ax, [get |-> OpItem], <<>>),
    PathItem(T_xy, [get |-> OpAny, post |-> OpDel],
      <<Parameter(<<"x">>, PATH, TRUE, TRUE, Schema("integer", TRUE, 1))>>),
    PathItem(T_xa, [get |-> OpDeep, post |-> OpCreate], <<>>),
    PathItem(T_a, [post |-> OpList], <<>>) }

\* documents with one to MaxTemplates path templates, in declaration order
Specs ==
  { [paths |-> p] :
      p \in { q \in UNION {[1..k -> Entries] : k \in 1..MaxTemplates} :
                \A i, j \in DOMAIN q : i # j => q[i] # q[j] } }

Segments == {<<>>, <<"a">>, <<"1", "2">>}

RECURSIVE JoinPath(_)
JoinPath(segs) ==
  IF segs = <<>> THEN <<>>
  ELSE <<"/">> \o Head(segs) \o JoinPath(Tail(segs))

\* request paths of up to MaxSegs segments
Paths == {JoinPath(g) : g \in UNION {[1..k -> Segments] : k \in 0..MaxSegs}}

Methods == {"get", "post"}

\* query strings of the request path with the explicit query map given
\* along with them
Queries ==
  { [qs |-> <<>>, query |-> NoParams],
    [qs |-> <<"?", "q", "=", "a">>, query |-> NoParams],
    [qs |-> <<"?", "q", "=", "1", "2">>, query |-> NoParams],
    [qs |-> <<"?", "q", "=", "a">>, query |-> (<<"q">> :> <<"1", "2">>)],
    [qs |-> <<"?", "q", "=", "%">>, query |-> NoParams],
    [qs |-> <<"?", "q", "=">>, query |-> NoParams],
    [qs |-> <<>>, query |-> (<<"q">> :> <<"t", "r", "u", "e">>)] }

HeaderSets == {NoParams, (<<"h">> :> <<"a">>)}

\* request bodies: none, null, {}, 5 and { a: ['a'] }
RequestBodies ==
  {Undefined, Null, ObjVal, NumVal(5),
   ObjOf(<<"a">> :> ArrVal(<<StrVal(<<"a">>)>>))}

\* a request without a body, and a POST request with any of the bodies
BodiesOf(m) == IF m = "post" THEN RequestBodies ELSE {Undefined}

ResponseBodies == {Undefined, Null, StrVal(<<>>), ObjVal, NumVal(5)}

StatusCodes == {200, 204, 404}

\* methods as the callers of pathMatcher.matchPath pass them
MethodNames == {"GET", "get", "POST"}

\* scheme and host put before a path, query and fragment put after it
UrlForms ==
  { [pre |-> HTTP \o <<"h">>, post |-> <<"?", "q", "=", "a", "#", "b">>],
    [pre |-> HTTPS \o <<"h">>, post |-> <<>>],
    [pre |-> <<"w", "s", ":", "/", "/", "h">>, post |-> <<>>],
    [pre |-> HTTP \o <<"h", " ", "h">>, post |-> <<"#", "b">>],
    [pre |-> <<>>, post |-> <<"?", "q", "=", "a", "/", "b">>],
    [pre |-> <<>>, post |-> <<"#", "b", "?", "a">>] }

\* values substituted for the placeholders of a template
ParamValues == {<<"a">>, <<"b">>, <<"1", "2">>, <<"b", "a">>}

\* the template with its k-th placeholder replaced by values[k]
RECURSIVE SubstituteFrom(_, _, _)
SubstituteFrom(toks, values, k) ==
  IF toks = <<>> THEN <<>>
  ELSE IF Head(toks).lit
       THEN <<Head(toks).c>> \o SubstituteFrom(Tail(toks), values, k)
       ELSE values[k] \o SubstituteFrom(Tail(toks), values, k + 1)

Substitute(pattern, values) ==
  SubstituteFrom(ReplacePlaceholders(pattern, 1), values, 1)

NoRequest ==
  [method |-> "", path |-> <<>>, headers |-> NoParams, query |-> NoParams,
   body |-> Undefined]

NoResponseInfo == [statusCode |-> 0, body |-> Undefined]

NoResult == [threw |-> FALSE, valid |-> TRUE, errors |-> <<>>]

NotBuilt == [index |-> 0, values |-> <<>>]

-----------------------------------------------------------------------------
(* The state machine: one entry point is called at a time on the loaded    *)
(* specification, and returns                                              *)

\* what matchPath computes for one template: the test of its regular
\* expression (line 51), extractPathParams, and matchPath of validator.ts
TryTemplate(pattern, u) ==
  [ok |-> SearchSuffix(pathPatternToRegex(pattern), extractPathFromUrl(u)).ok,
   pathParams |-> extractPathParams(pattern, extractPathFromUrl(u)),
   exact |-> validator_matchPath(pattern, SplitFirst(u, "?"))]

TryAll(s, u) == [i \in DOMAIN s.paths |-> TryTemplate(s.paths[i].pattern, u)]

Init ==
  /\ spec \in Specs
  /\ pc = "idle"
  /\ request = NoRequest
  /\ response = NoResponseInfo
  /\ result = NoResult
  /\ responseSpec = NoResponse
  /\ url = <<>>
  /\ method = ""
  /\ matched = NotMatched
  /\ tried = <<>>
  /\ built = NotBuilt
  /\ document = Leaf
  /\ resolved = Leaf
  /\ resolvedSpec = Leaf
  /\ InitPanelIdle
  /\ InitBackgroundIdle
  /\ InitFilterIdle

ValidateRequest ==
  /\ pc = "idle"
  /\ \E p \in Paths, q \in Queries, m \in Methods, h \in HeaderSets :
     \E b \in BodiesOf(m) :
       /\ request' = [method |-> m, path |-> p \o q.qs, headers |-> h,
                      query |-> q.query, body |-> b]
       /\ result' = validateRequest(spec, request')
  /\ pc' = "validateRequest"
  /\ UNCHANGED <<spec, response, responseSpec, url, method, matched, tried,
                 built>>
  /\ UNCHANGED <<resolverVars, panelVars, backgroundVars, settingsVars>>

\* the response definition validateResponse has resolved when it returns
ResolvedResponse(s, req, resp) ==
  LET found == findMatchingPath(s, req.path)
  IN  IF found.found /\ req.method \in DOMAIN s.paths[found.index].ops
      THEN responseSpecOf(s.paths[found.index].ops[req.method],
                          String(resp.statusCode))
      ELSE NoResponse

ValidateResponse ==
  /\ pc = "idle"
  /\ \E p \in Paths, m \in Methods, c \in StatusCodes, b \in ResponseBodies :
       /\ request' = [method |-> m, path |-> p, headers |-> NoParams,
                      query |-> NoParams, body |-> Undefined]
       /\ response' = [statusCode |-> c, body |-> b]
       /\ result' = validateResponse(spec, request', response')
       /\ responseSpec' = ResolvedResponse(spec, request', response')
  /\ pc' = "validateResponse"
  /\ UNCHANGED <<spec, url, method, matched, tried, built>>
  /\ UNCHANGED <<resolverVars, panelVars, backgroundVars, settingsVars>>

\* pathMatcher.matchPath on a path
MatchPath ==
  /\ pc = "idle"
  /\ \E p \in Paths, m \in MethodNames :
       /\ url' = p
       /\ method' = m
       /\ matched' = matchPath(spec, p, m)
       /\ tried' = TryAll(spec, p)
  /\ pc' = "matchPath"
  /\ UNCHANGED <<spec, request, response, result, responseSpec, built>>
  /\ UNCHANGED <<resolverVars, panelVars, backgroundVars, settingsVars>>

\* the same request behind a base path: one more leading segment
MatchPrefixed ==
  /\ pc \in {"matchPath", "matchPrefixed"}
  /\ built = NotBuilt
  /\ Len(Split(url, "/")) <= MaxSegs + MaxBase
  /\ \E g \in Segments \ {<<>>} : url' = <<"/">> \o g \o url
  /\ matched' = matchPath(spec, url', method)
  /\ tried' = TryAll(spec, url')
  /\ pc' = "matchPrefixed"
  /\ UNCHANGED <<spec, request, response, result, responseSpec, method, built>>
  /\ UNCHANGED <<resolverVars, panelVars, backgroundVars, settingsVars>>

\* the same request as a URL with scheme and host, query or fragment
MatchUrl ==
  /\ pc = "matchPath"
  /\ built = NotBuilt
  /\ \E f \in UrlForms : url' = f.pre \o url \o f.post
  /\ matched' = matchPath(spec, url', method)
  /\ tried' = TryAll(spec, url')
  /\ pc' = "matchUrl"
  /\ UNCHANGED <<spec, request, response, result, responseSpec, method, built>>
  /\ UNCHANGED <<resolverVars, panelVars, backgroundVars, settingsVars>>

\* matching the URL built from a template of the specification
MatchBuilt ==
  /\ pc = "idle"
  /\ \E i \in DOMAIN spec.paths, m \in MethodNames :
       LET n == Len(ParamNames(ReplacePlaceholders(spec.paths[i].pattern, 1)))
       IN  \E v \in [1..n -> ParamValues] :
             /\ built' = [index |-> i, values |-> v]
             /\ url' = Substitute(spec.paths[i].pattern, v)
             /\ method' = m
  /\ matched' = matchPath(spec, url', method')
  /\ tried' = TryAll(spec, url')
  /\ pc' = "matchPath"
  /\ UNCHANGED <<spec, request, response, result, responseSpec>>
  /\ UNCHANGED <<resolverVars, panelVars, backgroundVars, settingsVars>>

Return ==
  /\ pc # "idle"
  /\ pc' = "idle"
  /\ request' = NoRequest
  /\ response' = NoResponseInfo
  /\ result' = NoResult
  /\ responseSpec' = NoResponse
  /\ url' = <<>>
  /\ method' = ""
  /\ matched' = NotMatched
  /\ tried' = <<>>
  /\ built' = NotBuilt
  /\ UNCHANGED spec
  /\ UNCHANGED <<resolverVars, panelVars, backgroundVars, settingsVars>>

Next ==
  \/ ValidateRequest
  \/ ValidateResponse
  \/ MatchPath
  \/ MatchPrefixed
  \/ MatchUrl
  \/ MatchBuilt
  \/ Return

Spec == Init /\ [][Next]_vars

-----------------------------------------------------------------------------
(* The construction of a validator: resolveRefs on a document whose        *)
(* component schemas refer to one another in a chain                       *)

SchemaName(k) ==
  CASE k = 1 -> "S1" [] k = 2 -> "S2" [] k = 3 -> "S3" [] k = 4 -> "S4"
    [] k = 5 -> "S5" [] k = 6 -> "S6" [] k = 7 -> "S7" [] OTHER -> "S8"

\* { type: 'string' }
StringSchemaNode == Obj("type" :> Leaf)

\* a schema that refers to the next: { type: 'object', properties: { p: next } }
\* or { type: 'array', items: next }
Link(kind, next) ==
  IF kind = "property"
  THEN Obj("type" :> Leaf @@ "properties" :> Obj("p" :> next))
  ELSE Obj("type" :> Leaf @@ "items" :> next)

\* components.schemas: S1 refers to S2, ..., the last schema to none
ChainSchemas(kinds) ==
  [name \in {SchemaName(k) : k \in 1..(Len(kinds) + 1)} |->
     LET k == CHOOSE j \in 1..(Len(kinds) + 1) : SchemaName(j) = name
     IN  IF k = Len(kinds) + 1 THEN StringSchemaNode
         ELSE Link(kinds[k], Ref(SchemaName(k + 1)))]

MediaNode(schema) == Obj("content" :> Obj("json" :> Obj("schema" :> schema)))

\* a document with one operation, whose parameter, request body and 200
\* response all have the schema { $ref: S1 }
DocumentOf(kinds) ==
  Obj("info" :> Leaf
      @@ "paths" :>
           Obj("/p" :>
             Obj("post" :>
               Obj("parameters" :> Arr(<<Obj("schema" :> Ref("S1"))>>)
                   @@ "requestBody" :> MediaNode(Ref("S1"))
                   @@ "responses" :> Obj("200" :> MediaNode(Ref("S1"))))))
      @@ "components" :> Obj("schemas" :> Obj(ChainSchemas(kinds))))

Documents ==
  {DocumentOf(kinds) :
     kinds \in UNION {[1..n -> {"property", "items"}] : n \in 0..(MaxChain - 1)}}

InitRefs ==
  /\ document \in Documents
  /\ resolved = Leaf
  /\ resolvedSpec = Leaf
  /\ InitPanelIdle
  /\ InitBackgroundIdle
  /\ InitFilterIdle
  /\ spec = [paths |-> <<>>]
  /\ pc = "idle"
  /\ request = NoRequest
  /\ response = NoResponseInfo
  /\ result = NoResult
  /\ responseSpec = NoResponse
  /\ url = <<>>
  /\ method = ""
  /\ matched = NotMatched
  /\ tried = <<>>
  /\ built = NotBuilt

\* new OpenAPIValidator(spec): this.resolveRefs(spec), then
\* this.convertSchemaForJsonSchema(resolved)
Construct ==
  /\ resolved = Leaf
  /\ resolvedSpec = Leaf
  /\ resolved' = resolveRefs(document)
  /\ resolvedSpec' = convertSchemaForJsonSchema(resolved')
  /\ UNCHANGED <<document, validatorVars, panelVars, backgroundVars,
                 settingsVars>>

\* the validator is dropped, and the document can be loaded again
Discard ==
  /\ resolved # Leaf
  /\ resolved' = Leaf
  /\ resolvedSpec' = Leaf
  /\ UNCHANGED <<document, validatorVars, panelVars, backgroundVars,
                 settingsVars>>

NextRefs ==
  \/ Construct
  \/ Discard

SpecRefs == InitRefs /\ [][NextRefs]_vars

\* components.schemas that refer to one another in a cycle: S1 refers to S2,
\* ..., and the last schema back to the schema numbered back
CycleSchemas(kinds, back) ==
  [name \in {SchemaName(k) : k \in 1..Len(kinds)} |->
     LET k == CHOOSE j \in 1..Len(kinds) : SchemaName(j) = name
     IN  Link(kinds[k],
              Ref(SchemaName(IF k = Len(kinds) THEN back ELSE k + 1)))]

CyclicDocumentOf(kinds, back) ==
  Obj("info" :> Leaf
      @@ "paths" :>
           Obj("/p" :>
             Obj("post" :>
               Obj("parameters" :> Arr(<<Obj("schema" :> Ref("S1"))>>)
                   @@ "requestBody" :> MediaNode(Ref("S1"))
                   @@ "responses" :> Obj("200" :> MediaNode(Ref("S1"))))))
      @@ "components" :> Obj("schemas" :> Obj(CycleSchemas(kinds, back))))

InitCycles ==
  /\ \E n \in 1..MaxChain :
       \E kinds \in [1..n -> {"property", "items"}], back \in 1..n :
         document = CyclicDocumentOf(kinds, back)
  /\ resolved = Leaf
  /\ resolvedSpec = Leaf
  /\ InitPanelIdle
  /\ InitBackgroundIdle
  /\ InitFilterIdle
  /\ spec = [paths |-> <<>>]
  /\ pc = "idle"
  /\ request = NoRequest
  /\ response = NoResponseInfo
  /\ result = NoResult
  /\ responseSpec = NoResponse
  /\ url = <<>>
  /\ method = ""
  /\ matched = NotMatched
  /\ tried = <<>>
  /\ built = NotBuilt

SpecCycles == InitCycles /\ [][NextRefs]_vars

\* the type of a schema: none, a name, a list, a list with 'null'
SchemaTypes ==
  {Leaf, Scalar("string"), Arr(<<Scalar("string")>>),
   Arr(<<Scalar("string"), NULL_TYPE>>)}

\* the nullable key of a schema: none, true, false
NullableFlags == {Leaf, Scalar("true"), Scalar("false")}

\* a member of an object that is there unless its value is Leaf
Member(key, value) == IF value = Leaf THEN <<>> ELSE key :> value

\* a schema with these keys
SchemaWith(type, nullable, properties, items) ==
  Obj(Member("type", type) @@ Member("nullable", nullable)
      @@ Member("properties", properties) @@ Member("items", items))

\* schemas with up to n schemas nested in them
RECURSIVE NestedSchemas(_)
NestedSchemas(n) ==
  {SchemaWith(type, nullable, Leaf, Leaf) :
     type \in SchemaTypes, nullable \in NullableFlags}
  \cup
  (IF n = 0 THEN {}
   ELSE {SchemaWith(type, nullable, Obj("p" :> inner), Leaf) :
           type \in SchemaTypes, nullable \in NullableFlags,
           inner \in NestedSchemas(n - 1)}
        \cup
        {SchemaWith(type, nullable, Leaf, inner) :
           type \in SchemaTypes, nullable \in NullableFlags,
           inner \in NestedSchemas(n - 1)})

\* a document with one operation, whose parameter, request body and 200
\* response all have this schema
DocumentWith(schema) ==
  Obj("info" :> Leaf
      @@ "paths" :>
           Obj("/p" :>
             Obj("post" :>
               Obj("parameters" :> Arr(<<Obj("schema" :> schema)>>)
                   @@ "requestBody" :> MediaNode(schema)
                   @@ "responses" :> Obj("200" :> MediaNode(schema))))))

InitNullable ==
  /\ \E schema \in NestedSchemas(MaxNest) : document = DocumentWith(schema)
  /\ resolved = Leaf
  /\ resolvedSpec = Leaf
  /\ InitPanelIdle
  /\ InitBackgroundIdle
  /\ InitFilterIdle
  /\ spec = [paths |-> <<>>]
  /\ pc = "idle"
  /\ request = NoRequest
  /\ response = NoResponseInfo
  /\ result = NoResult
  /\ responseSpec = NoResponse
  /\ url = <<>>
  /\ method = ""
  /\ matched = NotMatched
  /\ tried = <<>>
  /\ built = NotBuilt

SpecNullable == InitNullable /\ [][NextRefs]_vars

-----------------------------------------------------------------------------
(* The pages: the DevTools panel (panel.ts) and the standalone page        *)
(* (main.ts), each with its own script and its own active specification    *)

InitPanel ==
  /\ page \in {"panel", "main"}
  /\ validator = "null"
  /\ currentSpec = "null"
  /\ message = "none"
  /\ callbacks = [id \in 1..MaxEntries |-> NoCallback]
  /\ trafficList = <<>>
  /\ awaiting = <<>>
  /\ InitBackgroundIdle
  /\ InitFilterIdle
  /\ document = Leaf
  /\ resolved = Leaf
  /\ resolvedSpec = Leaf
  /\ spec = [paths |-> <<>>]
  /\ pc = "idle"
  /\ request = NoRequest
  /\ response = NoResponseInfo
  /\ result = NoResult
  /\ responseSpec = NoResponse
  /\ url = <<>>
  /\ method = ""
  /\ matched = NotMatched
  /\ tried = <<>>
  /\ built = NotBuilt

\* the traffic list with every entry validated again; one throwing
\* validateEntry makes the whole map throw
Revalidated ==
  [i \in 1..Len(trafficList) |->
     Entry(trafficList[i].id, trafficList[i].seen,
           validateEntry(trafficList[i]))]

Unvalidated ==
  [i \in 1..Len(trafficList) |->
     Entry(trafficList[i].id, trafficList[i].seen, NoValidation)]

WithoutIndex(seq, i) ==
  [j \in 1..(Len(seq) - 1) |-> IF j < i THEN seq[j] ELSE seq[j + 1]]

\* trafficList.length > 1000
TRAFFIC_LIST_LIMIT == 1000

\* trafficList.push(entry); if (trafficList.length > 1000) trafficList.shift()
push(list, entry) ==
  IF Len(list) + 1 > TRAFFIC_LIST_LIMIT
  THEN Tail(Append(list, entry))
  ELSE Append(list, entry)

\* onRequestFinished fires: processNetworkRequest runs up to
\* await getContent
RequestFinished(id) ==
  /\ page = "panel"
  /\ callbacks[id].state = "none"
  /\ callbacks' =
       [callbacks EXCEPT ![id] = [state |-> "content", seen |-> validator]]
  /\ UNCHANGED <<page, validator, currentSpec, message, trafficList, awaiting>>
  /\ UNCHANGED <<validatorVars, resolverVars, backgroundVars, settingsVars>>

\* getContent resolves: the rest of processNetworkRequest, in one turn of
\* the event loop. A throwing validateEntry is caught and the entry is lost.
ContentArrived(id) ==
  /\ page = "panel"
  /\ callbacks[id].state = "content"
  /\ callbacks' = [callbacks EXCEPT ![id].state = "done"]
  /\ LET entry == Entry(id, callbacks[id].seen, NoValidation)
     IN  trafficList' =
           IF validator = "null" THEN push(trafficList, entry)
           ELSE IF ValidationThrows(validator) THEN trafficList
           ELSE push(trafficList,
                     Entry(id, entry.seen, validateEntry(entry)))
  /\ UNCHANGED <<page, validator, currentSpec, message, awaiting>>
  /\ UNCHANGED <<validatorVars, resolverVars, backgroundVars, settingsVars>>

\* panel.ts loadSpec up to await chrome.storage.local.set: fromFile throws
\* and the catch alerts, or the validator is assigned and the write is
\* issued. The storage serves its calls in the order they are made; the
\* promise of the call settles later (ok: the write succeeds)
LoadSpec(text, ok) ==
  /\ page = "panel"
  /\ IF fromFile(text)
       THEN /\ validator' = text
            /\ awaiting' = Append(awaiting, IF ok THEN "load" ELSE "loadRejected")
            /\ settings' = IF ok
                           THEN [settings EXCEPT !.openApiSpec = Stored(text)]
                           ELSE settings
            /\ UNCHANGED message
       ELSE /\ message' = "specLoadError"
            /\ UNCHANGED <<validator, awaiting, settings>>
  /\ UNCHANGED <<page, currentSpec, callbacks, trafficList>>
  /\ UNCHANGED <<filterMatchSpec, filterErrorOnly, disabled>>
  /\ UNCHANGED <<validatorVars, resolverVars, backgroundVars>>

\* the write of loadSpec is rejected: the catch alerts
LoadSpecRejected(i) ==
  /\ page = "panel"
  /\ i \in 1..Len(awaiting)
  /\ awaiting[i] = "loadRejected"
  /\ awaiting' = WithoutIndex(awaiting, i)
  /\ message' = "specLoadError"
  /\ UNCHANGED <<page, validator, currentSpec, callbacks, trafficList>>
  /\ UNCHANGED <<validatorVars, resolverVars, backgroundVars, settingsVars>>

\* the rest of loadSpec: updateSpecStatus reads info.title of the validator's
\* document, the traffic list is validated again, and the user is told; a
\* throw anywhere ends in the catch
LoadSpecResume(i) ==
  /\ page = "panel"
  /\ i \in 1..Len(awaiting)
  /\ awaiting[i] = "load"
  /\ awaiting' = WithoutIndex(awaiting, i)
  /\ IF validator # "null" /\ ~HasInfo(validator)
       THEN /\ message' = "specLoadError"
            /\ UNCHANGED trafficList
       ELSE IF trafficList # <<>> /\ ValidationThrows(validator)
       THEN /\ message' = "specLoadError"
            /\ UNCHANGED trafficList
       ELSE /\ message' = "specLoaded"
            /\ trafficList' = Revalidated
  /\ UNCHANGED <<page, validator, currentSpec, callbacks>>
  /\ UNCHANGED <<validatorVars, resolverVars, backgroundVars, settingsVars>>

\* panel.ts clearSpec up to await chrome.storage.local.remove
ClearSpec(ok) ==
  /\ page = "panel"
  /\ validator' = "null"
  /\ awaiting' = Append(awaiting, IF ok THEN "clear" ELSE "clearRejected")
  /\ settings' = IF ok THEN [settings EXCEPT !.openApiSpec = UNDEFINED]
                 ELSE settings
  /\ UNCHANGED <<page, currentSpec, message, callbacks, trafficList>>
  /\ UNCHANGED <<filterMatchSpec, filterErrorOnly, disabled>>
  /\ UNCHANGED <<validatorVars, resolverVars, backgroundVars>>

\* the remove of clearSpec is rejected: the rejection leaves clearSpec
ClearSpecRejected(i) ==
  /\ page = "panel"
  /\ i \in 1..Len(awaiting)
  /\ awaiting[i] = "clearRejected"
  /\ awaiting' = WithoutIndex(awaiting, i)
  /\ UNCHANGED <<page, validator, currentSpec, message, callbacks, trafficList>>
  /\ UNCHANGED <<validatorVars, resolverVars, backgroundVars, settingsVars>>

\* the rest of clearSpec
ClearSpecResume(i) ==
  /\ page = "panel"
  /\ i \in 1..Len(awaiting)
  /\ awaiting[i] = "clear"
  /\ awaiting' = WithoutIndex(awaiting, i)
  /\ trafficList' = Unvalidated
  /\ message' = "specCleared"
  /\ UNCHANGED <<page, validator, currentSpec, callbacks>>
  /\ UNCHANGED <<validatorVars, resolverVars, backgroundVars, settingsVars>>

\* main.ts handleFileSelect: loadSpecFromFile returns the document, or it
\* throws and the catch resets currentSpec
HandleFileSelect(text) ==
  /\ page = "main"
  /\ IF validateSpec(text)
       THEN /\ currentSpec' = text
            /\ message' = "specLoaded"
       ELSE /\ currentSpec' = "null"
            /\ message' = "specLoadError"
  /\ UNCHANGED <<page, validator, callbacks, trafficList, awaiting>>
  /\ UNCHANGED <<validatorVars, resolverVars, backgroundVars, settingsVars>>

\* a loadSpec call that reaches its await finds room among the suspended
\* handlers of the model
Suspends(text, most) == fromFile(text) => Len(awaiting) < most

NextPanel ==
  \/ \E id \in DOMAIN callbacks : RequestFinished(id)
  \/ \E id \in DOMAIN callbacks : ContentArrived(id)
  \/ \E text \in Texts : Suspends(text, MaxAwaiting) /\ LoadSpec(text, TRUE)
  \/ \E i \in 1..MaxAwaiting : LoadSpecResume(i)
  \/ Len(awaiting) < MaxAwaiting /\ ClearSpec(TRUE)
  \/ \E i \in 1..MaxAwaiting : ClearSpecResume(i)
  \/ \E text \in Texts : HandleFileSelect(text)

SpecPanel == InitPanel /\ [][NextPanel]_vars

-----------------------------------------------------------------------------
(* The panel's specification and the one in chrome.storage                 *)

\* the texts loadSpec stores: fromFile returned for them
ParsedTexts == {text \in Texts : fromFile(text)}

\* initialize: validator = OpenAPIValidator.fromFile(stored.openApiSpec)
\* when there is one; a throw is caught
initialValidator(item) ==
  IF item # UNDEFINED /\ fromFile(item[1]) THEN item[1] ELSE "null"

-----------------------------------------------------------------------------
(* The two filters of the panel                                            *)

\* updateFilterErrorOnlyState: what it leaves in filterErrorOnly
errorOnlyAfterUpdate(matchSpec, errorOnly) == matchSpec /\ errorOnly

\* updateFilterErrorOnlyState: what chrome.storage holds after it
settingsAfterUpdate(matchSpec, current) ==
  IF matchSpec THEN current
  ELSE [current EXCEPT !.filterErrorOnly = Stored(FALSE)]

\* change of the filterMatchSpec checkbox, up to await storage.set
MatchSpecChanged ==
  /\ page = "panel"
  /\ filterMatchSpec' = ~filterMatchSpec
  /\ settings' = [settings EXCEPT !.filterMatchSpec = Stored(~filterMatchSpec)]
  /\ awaiting' = Append(awaiting, "filterMatchSpec")
  /\ UNCHANGED <<filterErrorOnly, disabled>>
  /\ UNCHANGED <<page, validator, currentSpec, message, callbacks, trafficList>>
  /\ UNCHANGED <<validatorVars, resolverVars, backgroundVars>>

\* the rest of the handler: updateFilterErrorOnlyState and the rendering
MatchSpecResume(i) ==
  /\ page = "panel"
  /\ i \in 1..Len(awaiting)
  /\ awaiting[i] = "filterMatchSpec"
  /\ awaiting' = WithoutIndex(awaiting, i)
  /\ disabled' = ~filterMatchSpec
  /\ filterErrorOnly' = errorOnlyAfterUpdate(filterMatchSpec, filterErrorOnly)
  /\ settings' = settingsAfterUpdate(filterMatchSpec, settings)
  /\ UNCHANGED filterMatchSpec
  /\ UNCHANGED <<page, validator, currentSpec, message, callbacks, trafficList>>
  /\ UNCHANGED <<validatorVars, resolverVars, backgroundVars>>

\* change of the filterErrorOnly checkbox (a disabled checkbox does not
\* change), up to await storage.set
ErrorOnlyChanged ==
  /\ page = "panel"
  /\ ~disabled
  /\ filterErrorOnly' = ~filterErrorOnly
  /\ settings' = [settings EXCEPT !.filterErrorOnly = Stored(~filterErrorOnly)]
  /\ awaiting' = Append(awaiting, "filterErrorOnly")
  /\ UNCHANGED <<filterMatchSpec, disabled>>
  /\ UNCHANGED <<page, validator, currentSpec, message, callbacks, trafficList>>
  /\ UNCHANGED <<validatorVars, resolverVars, backgroundVars>>

\* the rest of the handler: the rendering
ErrorOnlyResume(i) ==
  /\ page = "panel"
  /\ i \in 1..Len(awaiting)
  /\ awaiting[i] = "filterErrorOnly"
  /\ awaiting' = WithoutIndex(awaiting, i)
  /\ UNCHANGED <<page, validator, currentSpec, message, callbacks, trafficList>>
  /\ UNCHANGED <<validatorVars, resolverVars, backgroundVars, settingsVars>>

\* initialize: the filters are restored from the storage, then
\* updateFilterErrorOnlyState runs, then the validator is made from the
\* stored text. The storage is empty or holds what earlier sessions wrote:
\* any filter settings, and the text of a loadSpec
InitSettings ==
  /\ page = "panel"
  /\ \E matchSpec, errorOnly \in {UNDEFINED, Stored(TRUE), Stored(FALSE)} :
     \E item \in {UNDEFINED} \cup {Stored(text) : text \in ParsedTexts} :
       /\ filterMatchSpec = OrFalse(matchSpec)
       /\ filterErrorOnly =
            errorOnlyAfterUpdate(OrFalse(matchSpec), OrFalse(errorOnly))
       /\ disabled = ~OrFalse(matchSpec)
       /\ settings =
            settingsAfterUpdate(OrFalse(matchSpec),
                                Settings(item, matchSpec, errorOnly))
       /\ validator = initialValidator(item)
  /\ currentSpec = "null"
  /\ message = "none"
  /\ callbacks = <<>>
  /\ trafficList = <<>>
  /\ awaiting = <<>>
  /\ InitBackgroundIdle
  /\ document = Leaf
  /\ resolved = Leaf
  /\ resolvedSpec = Leaf
  /\ spec = [paths |-> <<>>]
  /\ pc = "idle"
  /\ request = NoRequest
  /\ response = NoResponseInfo
  /\ result = NoResult
  /\ responseSpec = NoResponse
  /\ url = <<>>
  /\ method = ""
  /\ matched = NotMatched
  /\ tried = <<>>
  /\ built = NotBuilt

NextSettings ==
  \/ \E text \in Texts, ok \in BOOLEAN :
       Suspends(text, MaxOverlap) /\ LoadSpec(text, ok)
  \/ \E i \in 1..MaxOverlap : LoadSpecResume(i)
  \/ \E i \in 1..MaxOverlap : LoadSpecRejected(i)
  \/ \E ok \in BOOLEAN : Len(awaiting) < MaxOverlap /\ ClearSpec(ok)
  \/ \E i \in 1..MaxOverlap : ClearSpecResume(i)
  \/ \E i \in 1..MaxOverlap : ClearSpecRejected(i)
  \/ Len(awaiting) < MaxOverlap /\ MatchSpecChanged
  \/ \E i \in 1..MaxOverlap : MatchSpecResume(i)
  \/ Len(awaiting) < MaxOverlap /\ ErrorOnlyChanged
  \/ \E i \in 1..MaxOverlap : ErrorOnlyResume(i)

SpecSettings == InitSettings /\ [][NextSettings]_vars

-----------------------------------------------------------------------------
(* background.ts and the traffic history it saves (saveTraffic)            *)

MAX_TRAFFIC_ENTRIES == 1000

\* a request of the background script: where its handlers are, and the
\* history array saveTraffic holds for it
Handler(state, history) == [state |-> state, history |-> history]

NoHandler == Handler("new", <<>>)

\* the onCompleted handler of the request has ended: by its early return,
\* through catch, or after saveTraffic
Finished(handler) == handler.state \in {"returned", "caught", "saved"}

\* mutant: the entry is pushed at the end of the history
withEntry_oldestFirst(history, entry) ==
  LET pushed == Append(history, entry)
  IN  IF Len(pushed) > MAX_TRAFFIC_ENTRIES
      THEN SubSeq(pushed, 1, MAX_TRAFFIC_ENTRIES)
      ELSE pushed

\* history.unshift(entry); history.splice(MAX_TRAFFIC_ENTRIES) when longer
withEntry(history, entry) ==
  LET unshifted == <<entry>> \o history
  IN  IF Len(unshifted) > MAX_TRAFFIC_ENTRIES
      THEN SubSeq(unshifted, 1, MAX_TRAFFIC_ENTRIES)
      ELSE unshifted

\* onBeforeRequest: tabRequests.set(requestId, ...)
OnBeforeRequest(id) ==
  /\ page = "background"
  /\ handlers[id].state = "new"
  /\ tabRequests' = tabRequests \cup {id}
  /\ handlers' = [handlers EXCEPT ![id].state = "sent"]
  /\ UNCHANGED stored
  /\ UNCHANGED <<validatorVars, resolverVars, panelVars, settingsVars>>

\* onCompleted up to await loadSpec(); it returns at once when the table has
\* no entry for the request
OnCompleted(id) ==
  /\ page = "background"
  /\ handlers[id].state \in {"new", "sent"}
  /\ handlers' = [handlers EXCEPT
                    ![id].state = IF id \in tabRequests THEN "loadSpec"
                                  ELSE "returned"]
  /\ UNCHANGED <<tabRequests, stored>>
  /\ UNCHANGED <<validatorVars, resolverVars, panelVars, settingsVars>>

\* mutant: the entry is removed at the end of the try block, not in finally
SpecLoaded_noFinally(id, threw) ==
  /\ page = "background"
  /\ handlers[id].state = "loadSpec"
  /\ handlers' = [handlers EXCEPT
                    ![id].state = IF threw THEN "caught" ELSE "getHistory"]
  /\ UNCHANGED <<tabRequests, stored>>
  /\ UNCHANGED <<validatorVars, resolverVars, panelVars, settingsVars>>

\* loadSpec() resolves: matching, validation and the entry, up to the await
\* of saveTraffic on getTrafficHistory; a throw goes to catch and finally
SpecLoaded(id, threw) ==
  /\ page = "background"
  /\ handlers[id].state = "loadSpec"
  /\ IF threw
       THEN /\ handlers' = [handlers EXCEPT ![id].state = "caught"]
            /\ tabRequests' = tabRequests \ {id}
       ELSE /\ handlers' = [handlers EXCEPT ![id].state = "getHistory"]
            /\ UNCHANGED tabRequests
  /\ UNCHANGED stored
  /\ UNCHANGED <<validatorVars, resolverVars, panelVars, settingsVars>>

\* getTrafficHistory() resolves: saveTraffic up to await storage.set
HistoryRead(id) ==
  /\ page = "background"
  /\ handlers[id].state = "getHistory"
  /\ handlers' = [handlers EXCEPT ![id] = Handler("set", withEntry(stored, id))]
  /\ UNCHANGED <<tabRequests, stored>>
  /\ UNCHANGED <<validatorVars, resolverVars, panelVars, settingsVars>>

\* storage.set resolves: saveTraffic returns, and finally removes the entry
HistoryWritten(id) ==
  /\ page = "background"
  /\ handlers[id].state = "set"
  /\ stored' = handlers[id].history
  /\ handlers' = [handlers EXCEPT ![id] = Handler("saved", <<>>)]
  /\ tabRequests' = tabRequests \ {id}
  /\ UNCHANGED <<validatorVars, resolverVars, panelVars, settingsVars>>

InitBackground ==
  /\ page = "background"
  /\ tabRequests = {}
  /\ handlers = [id \in 1..MaxRequests |-> NoHandler]
  /\ stored = <<>>
  /\ validator = "null"
  /\ currentSpec = "null"
  /\ message = "none"
  /\ callbacks = <<>>
  /\ trafficList = <<>>
  /\ awaiting = <<>>
  /\ InitFilterIdle
  /\ document = Leaf
  /\ resolved = Leaf
  /\ resolvedSpec = Leaf
  /\ spec = [paths |-> <<>>]
  /\ pc = "idle"
  /\ request = NoRequest
  /\ response = NoResponseInfo
  /\ result = NoResult
  /\ responseSpec = NoResponse
  /\ url = <<>>
  /\ method = ""
  /\ matched = NotMatched
  /\ tried = <<>>
  /\ built = NotBuilt

NextBackground ==
  \/ \E id \in DOMAIN handlers : OnBeforeRequest(id)
  \/ \E id \in DOMAIN handlers : OnCompleted(id)
  \/ \E id \in DOMAIN handlers, threw \in BOOLEAN : SpecLoaded(id, threw)
  \/ \E id \in DOMAIN handlers : HistoryRead(id)
  \/ \E id \in DOMAIN handlers : HistoryWritten(id)

SpecBackground == InitBackground /\ [][NextBackground]_vars

-----------------------------------------------------------------------------
(* A long run of requests, handled one after the other without a failure   *)

\* the request before this one has been handled
PanelInOrder(id) == IF id = 1 THEN TRUE ELSE callbacks[id - 1].state = "done"

BackgroundInOrder(id) ==
  IF id = 1 THEN TRUE ELSE Finished(handlers[id - 1])

InitHistory ==
  /\ page \in {"panel", "background"}
  /\ tabRequests = {}
  /\ handlers = IF page = "background"
                THEN [id \in 1..MaxHistory |-> NoHandler] ELSE <<>>
  /\ stored = <<>>
  /\ validator = "null"
  /\ currentSpec = "null"
  /\ message = "none"
  /\ callbacks = IF page = "panel"
                 THEN [id \in 1..MaxHistory |-> NoCallback] ELSE <<>>
  /\ trafficList = <<>>
  /\ awaiting = <<>>
  /\ InitFilterIdle
  /\ document = Leaf
  /\ resolved = Leaf
  /\ resolvedSpec = Leaf
  /\ spec = [paths |-> <<>>]
  /\ pc = "idle"
  /\ request = NoRequest
  /\ response = NoResponseInfo
  /\ result = NoResult
  /\ responseSpec = NoResponse
  /\ url = <<>>
  /\ method = ""
  /\ matched = NotMatched
  /\ tried = <<>>
  /\ built = NotBuilt

NextHistory ==
  \/ \E id \in DOMAIN callbacks : PanelInOrder(id) /\ RequestFinished(id)
  \/ \E id \in DOMAIN callbacks : ContentArrived(id)
  \/ \E id \in DOMAIN handlers : BackgroundInOrder(id) /\ OnBeforeRequest(id)
  \/ \E id \in DOMAIN handlers : id \in tabRequests /\ OnCompleted(id)
  \/ \E id \in DOMAIN handlers : SpecLoaded(id, FALSE)
  \/ \E id \in DOMAIN handlers : HistoryRead(id)
  \/ \E id \in DOMAIN handlers : HistoryWritten(id)

SpecHistory == InitHistory /\ [][NextHistory]_vars

-----------------------------------------------------------------------------
(* What the claims mean by a template that matches a path: segment by      *)
(* segment, a placeholder standing for one non-empty segment               *)

IsPlaceholder(seg) ==
  Len(seg) >= 3 /\ seg[1] = "{" /\ seg[Len(seg)] = "}"

SegmentFits(tseg, pseg) ==
  IF IsPlaceholder(tseg) THEN pseg # <<>> ELSE tseg = pseg

\* the whole path against the whole template
TemplateFits(template, path) ==
  LET t == Split(template, "/")
      q == Split(path, "/")
  IN  Len(t) = Len(q) /\ \A k \in DOMAIN t : SegmentFits(t[k], q[k])

\* the templates of the loaded document that fit the request path, its
\* query string removed
Fitting == {i \in DOMAIN spec.paths :
              TemplateFits(spec.paths[i].pattern, SplitFirst(request.path, "?"))}

Validated == pc \in {"validateRequest", "validateResponse"}

OnlyError(code) ==
  /\ ~result.threw
  /\ result.valid = FALSE
  /\ Len(result.errors) = 1
  /\ result.errors[1].errorCode = code

\* the operation a request resolves to: the method's operation of the first
\* declared template that fits
Resolves ==
  /\ Fitting # {}
  /\ request.method \in DOMAIN spec.paths[Min(Fitting)].ops

ResolvedOperation == spec.paths[Min(Fitting)].ops[request.method]

\* C1: a request whose path, query string removed, fits no template of the
\* loaded document gets valid = false and exactly one error, PATH_NOT_FOUND,
\* from validateRequest and from validateResponse.
C1_PathNotFound ==
  (Validated /\ Fitting = {}) => OnlyError("PATH_NOT_FOUND")

\* a request with a body and a query string, on a path no template fits
C1_Witness ==
  /\ pc = "validateRequest"
  /\ Fitting = {}
  /\ request.body = NumVal(5)
  /\ request.path = <<"/", "1", "2", "/", "1", "2", "?", "q", "=", "a">>
  /\ OnlyError("PATH_NOT_FOUND")

\* C2: when the first declared template that fits the path does not declare
\* the request's method, validateRequest and validateResponse return
\* valid = false and exactly one error, METHOD_NOT_ALLOWED.
C2_MethodNotAllowed ==
  (Validated /\ Fitting # {} /\ ~Resolves) => OnlyError("METHOD_NOT_ALLOWED")

\* the first fitting template lacks the method that a later fitting template
\* declares
C2_Witness ==
  /\ pc = "validateRequest"
  /\ Cardinality(Fitting) = 2
  /\ request.method \notin DOMAIN spec.paths[Min(Fitting)].ops
  /\ request.method \in DOMAIN spec.paths[Max(Fitting)].ops
  /\ request.body = NumVal(5)
  /\ OnlyError("METHOD_NOT_ALLOWED")

\* the status-code keys of the model's status codes
ExactKey(c) ==
  CASE c = 200 -> K200 [] c = 204 -> K204 [] c = 404 -> K404

ClassKey(c) ==
  CASE c \in 200..299 -> K2XX [] c \in 400..499 -> <<"4", "X", "X">>

\* the definition an operation declares under a key
Declared(operation, k) ==
  [defined |-> TRUE, description |-> operation.responses[k].description,
   hasSchema |-> operation.responses[k].hasSchema,
   schema |-> operation.responses[k].schema]

\* C3: for a resolved operation validateResponse selects the definition
\* under the exact status code if declared, otherwise the one under the
\* class wildcard if declared, otherwise the one under 'default'.
C3_StatusResolution ==
  (pc = "validateResponse" /\ Resolves) =>
    LET keys == DOMAIN ResolvedOperation.responses
        exact == ExactKey(response.statusCode)
        class == ClassKey(response.statusCode)
    IN  /\ exact \in keys => responseSpec = Declared(ResolvedOperation, exact)
        /\ (exact \notin keys /\ class \in keys) =>
             responseSpec = Declared(ResolvedOperation, class)
        /\ (exact \notin keys /\ class \notin keys /\ DEFAULT \in keys) =>
             responseSpec = Declared(ResolvedOperation, DEFAULT)

\* status 200 on an operation that declares 200, 2XX and default
C3_Witness ==
  /\ pc = "validateResponse"
  /\ Resolves
  /\ response.statusCode = 200
  /\ {K200, K2XX, DEFAULT} \subseteq DOMAIN ResolvedOperation.responses
  /\ responseSpec.description = "exact"

\* C4: when the resolved operation declares neither the exact status code,
\* nor its class wildcard, nor 'default', validateResponse returns
\* valid = false and exactly one error, UNEXPECTED_STATUS_CODE.
C4_UnexpectedStatus ==
  (/\ pc = "validateResponse"
   /\ Resolves
   /\ {ExactKey(response.statusCode), ClassKey(response.statusCode), DEFAULT}
        \cap DOMAIN ResolvedOperation.responses = {})
  => OnlyError("UNEXPECTED_STATUS_CODE")

\* status 200 with a body on an operation that only declares 404
C4_Witness ==
  /\ pc = "validateResponse"
  /\ Resolves
  /\ ResolvedOperation.id = "getDeep"
  /\ response.statusCode = 200
  /\ response.body = NumVal(5)
  /\ OnlyError("UNEXPECTED_STATUS_CODE")

NonEmptyBody ==
  response.body \notin {Undefined, Null, StrVal(<<>>)}

\* C5 as stated: a 204 response on a resolved operation yields exactly one
\* UNEXPECTED_BODY error when its body is non-empty and valid = true when
\* its body is empty.
C5_Original ==
  (pc = "validateResponse" /\ Resolves /\ response.statusCode = 204) =>
    /\ NonEmptyBody => OnlyError("UNEXPECTED_BODY")
    /\ ~NonEmptyBody => (~result.threw /\ result.valid /\ result.errors = <<>>)

\* C5 as amended: a 204 response on a resolved operation that declares a
\* response for 204 (under 204, 2XX or default) yields exactly one
\* UNEXPECTED_BODY error when its body is non-empty, whatever schema the
\* response declares, and valid = true when its body is empty.
C5_NoContent ==
  (/\ pc = "validateResponse"
   /\ Resolves
   /\ response.statusCode = 204
   /\ {K204, K2XX, DEFAULT} \cap DOMAIN ResolvedOperation.responses # {})
  => /\ NonEmptyBody => OnlyError("UNEXPECTED_BODY")
     /\ ~NonEmptyBody => (~result.threw /\ result.valid /\ result.errors = <<>>)

\* a 204 response with an object body where 204 declares an integer schema
C5_Witness ==
  /\ pc = "validateResponse"
  /\ Resolves
  /\ response.statusCode = 204
  /\ response.body = ObjVal
  /\ responseSpec.hasSchema
  /\ responseSpec.schema.type = "integer"
  /\ OnlyError("UNEXPECTED_BODY")

\* a template against the end of a path: its segments fit the last segments
\* of the path
TemplateFitsEnd(template, path) ==
  LET t == Split(template, "/")
      q == Split(path, "/")
  IN  /\ Len(q) >= Len(t)
      /\ \A k \in 2..Len(t) : SegmentFits(t[k], q[Len(q) - Len(t) + k])

LowerMethod ==
  CASE method \in {"GET", "get"} -> "get"
    [] method \in {"POST", "post"} -> "post"
    [] OTHER -> method

\* the templates that declare the requested method and fit the end of url
Candidates ==
  {i \in DOMAIN spec.paths :
     /\ LowerMethod \in DOMAIN spec.paths[i].ops
     /\ TemplateFitsEnd(spec.paths[i].pattern, url)}

\* C6: pathMatcher.matchPath returns the first declared template that fits
\* the request path among those that declare the method (whatever its
\* case), with the operation declared for that template and method, and
\* null when there is none.
C6_FirstDeclaredWins ==
  (pc \in {"matchPath", "matchPrefixed"}) =>
    IF Candidates = {} THEN ~matched.found
    ELSE /\ matched.found
         /\ matched.path = spec.paths[Min(Candidates)].pattern
         /\ matched.operation = spec.paths[Min(Candidates)].ops[LowerMethod]

\* two templates fit and declare the method, given in upper case
C6_Witness ==
  /\ pc = "matchPath"
  /\ method = "GET"
  /\ Cardinality(Candidates) = 2
  /\ matched.found
  /\ matched.path = spec.paths[1].pattern
  /\ matched.path # spec.paths[2].pattern

\* C7: when a template matches a path it matches, with the same path
\* parameters, every path that has further whole segments put before it; so
\* matchPath still finds a template.
C7_SuffixMatching ==
  [][(/\ pc' = "matchPrefixed"
      /\ \E g \in Segments : url' = <<"/">> \o g \o url)
     => /\ \A i \in DOMAIN tried :
             tried[i].ok => /\ tried'[i].ok
                            /\ tried'[i].pathParams = tried[i].pathParams
        /\ matched.found => matched'.found]_vars

\* /a/{x} matches /12/a/12 with x = 12
C7_Witness ==
  /\ pc = "matchPrefixed"
  /\ url = <<"/", "1", "2", "/", "a", "/", "1", "2">>
  /\ \E i \in DOMAIN tried :
       /\ spec.paths[i].pattern = T_ax
       /\ tried[i].ok
       /\ tried[i].pathParams = (<<"x">> :> <<"1", "2">>)

\* the placeholder names of the model's templates, in template order
PlaceholdersOf(pattern) ==
  CASE pattern = T_a -> <<>>
    [] pattern = T_ax -> <<<<"x">>>>
    [] pattern = T_xa -> <<<<"x">>>>
    [] pattern = T_xy -> <<<<"x">>, <<"y">>>>

WS == <<"w", "s", ":", "/", "/">>

\* url' is url behind one of the given scheme-and-host prefixes, or with a
\* query string or fragment after it
UrlOf(prefixes) ==
  \E f \in UrlForms :
    /\ f.pre \in prefixes \cup {<<>>}
    /\ url' = f.pre \o url \o f.post

\* C9 as stated: matchPath gives the same result for scheme://host/path with
\* query and fragment as for the bare path, whatever the scheme.
C9_Original ==
  [][(/\ pc' = "matchUrl"
      /\ StartsWith(url, <<"/">>)
      /\ UrlOf({HTTP \o <<"h">>, HTTPS \o <<"h">>, WS \o <<"h">>}))
     => matched' = matched]_vars

\* C9 as amended: matchPath gives the same result for an http:// or
\* https:// URL, with query and fragment, as for its bare path.
C9_UrlForms ==
  [][(/\ pc' = "matchUrl"
      /\ StartsWith(url, <<"/">>)
      /\ UrlOf({HTTP \o <<"h">>, HTTPS \o <<"h">>}))
     => matched' = matched]_vars

\* http://h/a/12?q=a#b matches /a/{x} with x = 12
C9_Witness ==
  /\ pc = "matchUrl"
  /\ url = HTTP \o <<"h", "/", "a", "/", "1", "2", "?", "q", "=", "a", "#", "b">>
  /\ matched.found
  /\ matched.path = T_ax
  /\ matched.pathParams = (<<"x">> :> <<"1", "2">>)

\* C10 as stated: once path and method resolve, a required header parameter
\* of the operation that the request headers lack, or give as the empty
\* string, produces a REQUIRED error and valid = false.
C10_HeaderRequired ==
  (pc = "validateRequest" /\ Resolves /\ ~result.threw) =>
    LET allParameters == spec.paths[Min(Fitting)].parameters
                           \o ResolvedOperation.parameters
    IN  \A k \in DOMAIN allParameters :
          (/\ allParameters[k].in = HEADER
           /\ allParameters[k].required
           /\ \/ allParameters[k].name \notin DOMAIN request.headers
              \/ request.headers[allParameters[k].name] = <<>>)
          => /\ result.valid = FALSE
             /\ \E e \in DOMAIN result.errors :
                  /\ result.errors[e].errorCode = "REQUIRED"
                  /\ result.errors[e].path = allParameters[k].name

\* the parameters declared for the resolved operation: those of the path
\* item, then those of the operation
DeclaredParameters ==
  spec.paths[Min(Fitting)].parameters \o ResolvedOperation.parameters

\* the values a request gives at a location: the segments that stand for
\* the placeholders of the template, or the query of the path and the query
\* map together
GivenValues(location) ==
  IF location = PATH
  THEN LET t == Split(spec.paths[Min(Fitting)].pattern, "/")
           q == Split(SplitFirst(request.path, "?"), "/")
           at == {k \in DOMAIN t : IsPlaceholder(t[k])}
       IN  [name \in {SubSeq(t[k], 2, Len(t[k]) - 1) : k \in at} |->
              q[CHOOSE k \in at : SubSeq(t[k], 2, Len(t[k]) - 1) = name]]
  ELSE Spread(parseQueryString(SplitSecond(request.path, "?")).params,
              request.query)

\* the value given for a parameter is absent or the empty string
Missing(param) ==
  \/ param.name \notin DOMAIN GivenValues(param.in)
  \/ GivenValues(param.in)[param.name] = <<>>

\* the errors of the result that a schema evaluation of the value at a
\* path would have produced
SchemaErrorsAt(path) ==
  {e \in DOMAIN result.errors : result.errors[e].location = path}

\* C11: for each parameter declared at a validated location (path, query):
\* when it is required and its value is absent or the empty string, the
\* result has exactly one REQUIRED error naming it and no error of its
\* schema; when it is not required and its value is absent or the empty
\* string, the result has no error for it.
C11_RequiredParameter ==
  (pc = "validateRequest" /\ Resolves /\ ~result.threw) =>
    \A k \in DOMAIN DeclaredParameters :
      LET param == DeclaredParameters[k]
          named == {e \in DOMAIN result.errors :
                      result.errors[e].path = param.name}
      IN  (param.in \in {PATH, QUERY} /\ Missing(param)) =>
            /\ SchemaErrorsAt(param.name) = {}
            /\ IF param.required
               THEN /\ Cardinality(named) = 1
                    /\ \A e \in named :
                         /\ result.errors[e].errorCode = "REQUIRED"
                         /\ result.errors[e].location = param.in
               ELSE named = {}

\* ?q= on an operation whose required integer q has a minimum: one REQUIRED
\* error for q, and none of its schema
C11_Witness ==
  /\ pc = "validateRequest"
  /\ Resolves
  /\ ResolvedOperation.id = "postDeep"
  /\ SplitSecond(request.path, "?") = <<"q", "=">>
  /\ request.query = NoParams
  /\ \E e \in DOMAIN result.errors :
       /\ result.errors[e].path = <<"q">>
       /\ result.errors[e].errorCode = "REQUIRED"
  /\ SchemaErrorsAt(<<"q">>) = {}

BodyAbsent == request.body \in {Undefined, Null}

\* C12 as stated: when the resolved operation declares a required
\* requestBody and the request body is undefined or null, validateRequest
\* returns valid = false with exactly one REQUIRED error, located at
\* requestBody.
C12_RequiredBody ==
  (/\ pc = "validateRequest"
   /\ Resolves
   /\ ~result.threw
   /\ ResolvedOperation.requestBody.declared
   /\ ResolvedOperation.requestBody.required
   /\ BodyAbsent)
  => /\ result.valid = FALSE
     /\ Cardinality({e \in DOMAIN result.errors :
                       /\ result.errors[e].errorCode = "REQUIRED"
                       /\ result.errors[e].path =
                            <<"r", "e", "q", "u", "e", "s", "t">> \o
                            <<"B", "o", "d", "y">>}) = 1

\* the errors of each stage of validateRequest, taken on its own
StageErrors(location) ==
  validateParameters(DeclaredParameters, 1, location, GivenValues(location),
                     <<>>)

BodyStageErrors ==
  LET rb == ResolvedOperation.requestBody
  IN  IF ~(rb.declared /\ rb.hasSchema) THEN <<>>
      ELSE IF BodyAbsent
           THEN IF rb.required THEN <<Error(BODY, "REQUIRED", BODY)>> ELSE <<>>
           ELSE validateSchema(request.body, rb.schema, BODY, <<>>)

\* C13: once path and method resolve, the errors validateRequest returns are
\* those of path-parameter validation, of query-parameter validation and of
\* body validation together, in that order, and valid tells whether there
\* is none: no stage's errors suppress those of a later stage.
C13_Accumulation ==
  (pc = "validateRequest" /\ Resolves /\ ~result.threw) =>
    /\ result.errors = StageErrors(PATH) \o StageErrors(QUERY) \o BodyStageErrors
    /\ result.valid = (result.errors = <<>>)

\* a request with a path-parameter error, a query-parameter error and a
\* body error
C13_Witness ==
  /\ pc = "validateRequest"
  /\ Resolves
  /\ ~result.threw
  /\ StageErrors(PATH) # <<>>
  /\ StageErrors(QUERY) # <<>>
  /\ BodyStageErrors # <<>>
  /\ Len(result.errors) = 3
  /\ result.errors[1].location = <<"x">>
  /\ result.errors[2].location = <<"q">>
  /\ result.errors[3].location = BODY

Taxonomy ==
  {"PATH_NOT_FOUND", "METHOD_NOT_ALLOWED", "UNEXPECTED_STATUS_CODE",
   "UNEXPECTED_BODY", "REQUIRED", "TYPE_MISMATCH", "FORMAT_VIOLATION",
   "RANGE_VIOLATION", "ENUM_VIOLATION", "VALIDATION_ERROR"}

\* C14 as stated: every errorCode of an error returned by validateRequest or
\* validateResponse belongs to the closed taxonomy.
C14_ClosedTaxonomy ==
  (Validated /\ ~result.threw) =>
    \A e \in DOMAIN result.errors : result.errors[e].errorCode \in Taxonomy

\* the node an error is about, as a dotted path from the validated value,
\* whose own errors are at `${location}.instance`
NodeOf(err) ==
  IF err.path = err.location \o INSTANCE_SUFFIX THEN err.location ELSE err.path

StrictlyUnder(q, p) ==
  Len(q) > Len(p) /\ SubSeq(q, 1, Len(p) + 1) = p \o <<".">>

Digits == {"0", "1", "2", "3", "4", "5", "6", "7", "8", "9"}

IsNumeral(v) == v # <<>> /\ \A i \in DOMAIN v : v[i] \in Digits

\* the number a decimal numeral denotes
RECURSIVE Denotes(_)
Denotes(v) ==
  IF v = <<>> THEN 0
  ELSE 10 * Denotes(SubSeq(v, 1, Len(v) - 1))
       + (CHOOSE d \in 0..9 : String(d) = <<v[Len(v)]>>)

\* the errors of the result that the schema of a parameter produced
TypeErrorsOf(param) ==
  {e \in SchemaErrorsAt(param.name) : result.errors[e].errorCode = "type"}

\* C20: a present parameter value is coerced by the declared type before
\* its schema is evaluated: for integer or number a numeral becomes its
\* number, and any other string stays a string and gets a type error; for
\* boolean the value becomes true exactly when it is the string "true", so
\* that it never gets a type error; for any other type it stays the string.
C20_Coercion ==
  (pc = "validateRequest" /\ Resolves /\ ~result.threw) =>
    \A k \in DOMAIN DeclaredParameters :
      LET param == DeclaredParameters[k]
          v == GivenValues(param.in)[param.name]
          coerced == convertValue(v, param.schema)
      IN  (param.in \in {PATH, QUERY} /\ ~Missing(param) /\ param.hasSchema) =>
            CASE param.schema.type \in {"integer", "number"} ->
                   IF IsNumeral(v)
                   THEN coerced = NumVal(Denotes(v)) /\ TypeErrorsOf(param) = {}
                   ELSE coerced = StrVal(v)
                        /\ Cardinality(TypeErrorsOf(param)) = 1
              [] param.schema.type = "boolean" ->
                   /\ coerced = BoolVal(v = <<"t", "r", "u", "e">>)
                   /\ SchemaErrorsAt(param.name) = {}
              [] OTHER -> coerced = StrVal(v)

\* x = a for an integer x gets a type error, and q = 12 for an integer q
\* with minimum 20 is compared as the number 12
C20_Witness ==
  /\ pc = "validateRequest"
  /\ Resolves
  /\ ResolvedOperation.id = "postDeep"
  /\ GivenValues(PATH)[<<"x">>] = <<"a">>
  /\ GivenValues(QUERY) = (<<"q">> :> <<"1", "2">>)
  /\ \E e \in SchemaErrorsAt(<<"x">>) : result.errors[e].errorCode = "type"
  /\ \E e \in SchemaErrorsAt(<<"q">>) : result.errors[e].errorCode = "minimum"

\* a { $ref } node that names an existing component schema occurs in a node
RECURSIVE HasRef(_, _)
HasRef(schemas, node) ==
  \/ node.kind = "ref" /\ node.ref \in DOMAIN schemas
  \/ /\ node.kind \in {"object", "array"}
     /\ \E k \in DOMAIN node.kids : HasRef(schemas, node.kids[k])

\* the schema at each of the three schema positions of the operation
ParameterSchema(doc) ==
  doc.kids["paths"].kids["/p"].kids["post"].kids["parameters"].kids[1]
     .kids["schema"]

BodySchemaNode(doc) ==
  doc.kids["paths"].kids["/p"].kids["post"].kids["requestBody"]
     .kids["content"].kids["json"].kids["schema"]

ResponseSchemaNode(doc) ==
  doc.kids["paths"].kids["/p"].kids["post"].kids["responses"].kids["200"]
     .kids["content"].kids["json"].kids["schema"]

\* C16 as stated: after resolveRefs on a document without reference cycles,
\* no operation contains a $ref node that names an existing component
\* schema.
C16_RefsResolved ==
  (resolved # Leaf) =>
    ~HasRef(SchemasOf(document), resolved.kids["paths"])

\* C17 as stated: the occurrences of one $ref at different positions of a
\* document are replaced by structurally equal schemas.
C17_SameInlining ==
  (resolved # Leaf) =>
    /\ ParameterSchema(resolved) = BodySchemaNode(resolved)
    /\ BodySchemaNode(resolved) = ResponseSchemaNode(resolved)

\* the key of a member in a path of keys
PathKey(node, k) == IF node.kind = "array" THEN ToString(k) ELSE k

\* the node of a tree at a path of keys
RECURSIVE NodeAt(_, _)
NodeAt(node, path) ==
  IF path = <<>> THEN node
  ELSE LET k == CHOOSE j \in DOMAIN node.kids : PathKey(node, j) = Head(path)
       IN  NodeAt(node.kids[k], Tail(path))

\* the calls of resolveRef made with a depth beyond the limit, each with the
\* place of its result in the resolved document and the node it was given
RECURSIVE Cuts(_, _, _, _)
Cuts(schemas, obj, depth, path) ==
  IF depth > DepthLimit THEN {[path |-> path, node |-> obj]}
  ELSE CASE obj.kind = "leaf" -> {}
         [] obj.kind = "ref" ->
              IF obj.ref \in DOMAIN schemas
              THEN Cuts(schemas, schemas[obj.ref], depth + 1, path)
              ELSE {}
         [] OTHER ->
              UNION {Cuts(schemas, obj.kids[k], depth + 1,
                          Append(path, PathKey(obj, k))) : k \in DOMAIN obj.kids}

\* C21: on a document whose component schemas refer to one another in a
\* cycle, resolveRefs returns a document, in which every node reached with
\* a depth beyond 20 is the node as it was, unresolved.
C21_CutOff ==
  (resolved # Leaf) =>
    /\ resolved.kind = "object"
    /\ \A c \in Cuts(SchemasOf(document), document, 0, <<>>) :
         NodeAt(resolved, c.path) = c.node

\* a cyclic document was resolved, and a reference into the cycle is left
\* where the recursion was cut off
C21_Witness ==
  /\ resolved # Leaf
  /\ \E c \in Cuts(SchemasOf(document), document, 0, <<>>) :
       HasRef(SchemasOf(document), c.node)

\* nullable: true
FlaggedNullable(node) ==
  "nullable" \in DOMAIN node.kids /\ node.kids["nullable"] = Scalar("true")

Typed(node) == "type" \in DOMAIN node.kids

\* the type list the claim asks for: the original type or types, and 'null'
UnionWithNull(type) ==
  LET types == IF type.kind = "array" THEN type.kids ELSE <<type>>
  IN  IF \E i \in DOMAIN types : types[i] = NULL_TYPE THEN Arr(types)
      ELSE Arr(types \o <<NULL_TYPE>>)

\* the schema nodes of a schema: itself and, through properties and items,
\* the schemas nested in it, each by its path
RECURSIVE SchemaPaths(_, _)
SchemaPaths(node, path) ==
  {path}
  \cup (IF "properties" \in DOMAIN node.kids
        THEN UNION {SchemaPaths(node.kids["properties"].kids[name],
                                path \o <<"properties", name>>) :
                      name \in DOMAIN node.kids["properties"].kids}
        ELSE {})
  \cup (IF "items" \in DOMAIN node.kids
        THEN SchemaPaths(node.kids["items"], path \o <<"items">>)
        ELSE {})

\* the three schema positions of the operation
SchemaPositions ==
  {<<"paths", "/p", "post", "parameters", "1", "schema">>,
   <<"paths", "/p", "post", "requestBody", "content", "json", "schema">>,
   <<"paths", "/p", "post", "responses", "200", "content", "json", "schema">>}

\* the paths of all schema nodes of the resolved document
AllSchemaPaths ==
  UNION {SchemaPaths(NodeAt(resolved, position), position) :
           position \in SchemaPositions}

\* the node was rewritten: no nullable key, and the type list with 'null'
Rewritten(before, after) ==
  /\ "nullable" \notin DOMAIN after.kids
  /\ Typed(after)
  /\ Typed(before) => after.kids["type"] = UnionWithNull(before.kids["type"])

\* C22 as stated: every schema node with nullable: true, at a schema position
\* of an operation or nested under it, has its type rewritten to the list
\* with 'null' and its nullable key removed.
C22_Original ==
  (resolvedSpec # Leaf) =>
    \A path \in AllSchemaPaths :
      FlaggedNullable(NodeAt(resolved, path)) =>
        Rewritten(NodeAt(resolved, path), NodeAt(resolvedSpec, path))

\* C22: every schema node with nullable: true and a type, at a schema
\* position of an operation or nested under it, has its type rewritten to the
\* list with 'null' and its nullable key removed; a schema node with
\* nullable: true and no type is left as it is.
C22_NullableRewritten ==
  (resolvedSpec # Leaf) =>
    \A path \in AllSchemaPaths :
      LET before == NodeAt(resolved, path)
          after == NodeAt(resolvedSpec, path)
      IN  FlaggedNullable(before) =>
            IF Typed(before) THEN Rewritten(before, after)
            ELSE /\ FlaggedNullable(after)
                 /\ ~Typed(after)

\* a nullable schema with a list of types, nested in a nullable schema with
\* one type, was converted
C22_Witness ==
  /\ resolvedSpec # Leaf
  /\ \E path \in AllSchemaPaths :
       /\ Len(path) > 7
       /\ FlaggedNullable(NodeAt(resolved, path))
       /\ Typed(NodeAt(resolved, path))
       /\ NodeAt(resolved, path).kids["type"].kind = "array"
       /\ FlaggedNullable(NodeAt(resolved, <<"paths", "/p", "post", "requestBody", "content", "json", "schema">>))
       /\ Typed(NodeAt(resolved, <<"paths", "/p", "post", "requestBody", "content", "json", "schema">>))

\* the schema has a pattern that is not a regular expression
MalformedPattern(schema) ==
  "pattern" \in DOMAIN schema /\ ~WellFormed(schema.pattern)

\* the query string of the request can be decoded
QueryDecodes == ~parseQueryString(SplitSecond(request.path, "?")).threw

\* the errors of the result about one parameter, or about the body
ErrorsOf(name) ==
  SelectSeq(result.errors, LAMBDA e : e.path = name \/ e.location = name)

\* the errors of a parameter validated on its own
Alone(param) ==
  validateParameters(<<param>>, 1, param.in, GivenValues(param.in), <<>>)

\* a parameter with a value, whose schema cannot be evaluated
Unevaluable(param) ==
  /\ param.in \in {PATH, QUERY}
  /\ ~Missing(param)
  /\ param.hasSchema
  /\ param.schema.type = "string"
  /\ MalformedPattern(param.schema)

\* C23: a schema whose evaluation throws (a pattern that is no regular
\* expression) gives one VALIDATION_ERROR at the path of the value it was
\* to validate; validateRequest still returns, with the errors of the other
\* parameters and of the body, and validateResponse returns that one error.
C23_Caught ==
  /\ (pc = "validateRequest" /\ Resolves /\ QueryDecodes) =>
       \A k \in DOMAIN DeclaredParameters :
         Unevaluable(DeclaredParameters[k]) =>
           /\ ~result.threw
           /\ ~result.valid
           /\ ErrorsOf(DeclaredParameters[k].name) =
                <<Error(DeclaredParameters[k].name, "VALIDATION_ERROR",
                        NoLocation)>>
           /\ \A j \in DOMAIN DeclaredParameters :
                (j # k /\ DeclaredParameters[j].in \in {PATH, QUERY}) =>
                  ErrorsOf(DeclaredParameters[j].name) =
                    Alone(DeclaredParameters[j])
           /\ ErrorsOf(BODY) = BodyStageErrors
  /\ (/\ pc = "validateResponse"
      /\ Resolves
      /\ response.statusCode # 204
      /\ responseSpec.hasSchema
      /\ MalformedPattern(responseSpec.schema)
      /\ response.body.t = "string") =>
       result = Returned(FALSE, <<Error(RESPONSE, "VALIDATION_ERROR",
                                        NoLocation)>>)

\* a request whose path parameter y has the malformed pattern, after a type
\* error of x and before a type error of the body
C23_Witness ==
  /\ pc = "validateRequest"
  /\ Resolves
  /\ ResolvedOperation.id = "postAny"
  /\ Len(result.errors) = 3
  /\ result.errors[1].errorCode = "type"
  /\ result.errors[1].location = <<"x">>
  /\ result.errors[2].errorCode = "VALIDATION_ERROR"
  /\ result.errors[2].path = <<"y">>
  /\ result.errors[3].location = BODY

\* C24: every result returned by validateRequest or validateResponse, on
\* every return path, has valid = true exactly when its errors are none.
C24_ValidIffNoErrors ==
  (Validated /\ ~result.threw) => (result.valid <=> result.errors = <<>>)

\* a 204 response with a body, on an operation that declares a response for
\* it: the UNEXPECTED_BODY return path
C24_Witness ==
  /\ pc = "validateResponse"
  /\ Resolves
  /\ response.statusCode = 204
  /\ result.errors # <<>>
  /\ result.errors[1].errorCode = "UNEXPECTED_BODY"
  /\ ~result.valid

\* C25 as stated: validateRequest and validateResponse return a result for
\* every request and response, a query string with malformed
\* percent-encoding included, and never throw.
C25_Total == Validated => ~result.threw

\* the requests the panel has processed, and those the background script
\* has saved
Processed == Cardinality({id \in DOMAIN callbacks : callbacks[id].state = "done"})

Saved == Cardinality({id \in DOMAIN handlers : handlers[id].state = "saved"})

C27_NoLostUpdate ==
  (\A id \in DOMAIN handlers : Finished(handlers[id]))
    => \A id \in DOMAIN handlers :
         handlers[id].state = "saved" => id \in Range(stored)

\* C28: when the onCompleted handler of a request has ended, tabRequests has
\* no entry for the request, whether the handler saved the entry or threw
C28_Removed ==
  \A id \in DOMAIN handlers : Finished(handlers[id]) => id \notin tabRequests

\* one request was saved and another threw after loadSpec, both of them
\* inserted by onBeforeRequest, while a third is still in the table
C28_Witness ==
  /\ \E id \in DOMAIN handlers : handlers[id].state = "saved"
  /\ \E id \in DOMAIN handlers : handlers[id].state = "caught"
  /\ tabRequests # {}


-----------------------------------------------------------------------------
(* Loading a specification                                                 *)

\* the texts the claim is about: no parse, no info, paths missing or empty
RejectedTexts == {text \in Texts : ~validateSpec(text)}

\* a load of a rejected text is attempted in this step
RejectedLoad ==
  \E text \in RejectedTexts :
    (\E ok \in BOOLEAN : LoadSpec(text, ok)) \/ HandleFileSelect(text)

\* C18: a load of a text that does not parse, or that parses to a document
\* without info or with a missing or empty paths map, fails with an error
\* and leaves the specification that was active before it active.
C18_FailedLoadKeepsSpec ==
  [][RejectedLoad =>
       /\ message' = "specLoadError"
       /\ validator' = validator
       /\ currentSpec' = currentSpec]_vars

\* C29: in every state of the panel the 'errors only' filter is on only
\* while the 'spec matches only' filter is on.
C29_ErrorOnlyNeedsMatchSpec == filterErrorOnly => filterMatchSpec

\* C30: once every loadSpec and clearSpec call has completed, the validator
\* is non-null exactly when chrome.storage holds an openApiSpec, and it was
\* made from the stored text.
C30_Consistent ==
  awaiting = <<>> =>
    validator = IF settings.openApiSpec = UNDEFINED THEN "null"
                ELSE settings.openApiSpec[1]

HasValidation(entry) == entry.validation # NoValidation

\* C19: under every interleaving of network-request callbacks with loadSpec
\* and clearSpec, the request validation and the response validation of a
\* traffic entry are computed by the same validator.
C19_SameVersion ==
  \A i \in 1..Len(trafficList) :
    HasValidation(trafficList[i]) =>
      trafficList[i].validation.requestBy =
        trafficList[i].validation.responseBy

\* a request finished under one specification and its content arrived after
\* another had been loaded, while that loadSpec was still waiting
C19_Witness ==
  \E i \in 1..Len(trafficList) :
    /\ HasValidation(trafficList[i])
    /\ trafficList[i].seen \in {"v1", "v2"}
    /\ trafficList[i].validation.requestBy \in {"v1", "v2"}
    /\ trafficList[i].validation.requestBy # trafficList[i].seen
    /\ awaiting # <<>>

====
